---- MODULE Spec2Model ----
(***************************************************************************)
(* Geometry-and-projection utility layer of API-CNIG: the CRS catalogue    *)
(* and its registration (M/impl/ol/js/projections), and the utilities of   *)
(* M/impl/utils (GeoJSON reprojection, resolution ladder, render-feature   *)
(* decoding, CRS lookups).                                                 *)
(***************************************************************************)
EXTENDS Integers, Sequences, FiniteSets, TLC

Range(s) == {s[i] : i \in DOMAIN s}

(***************************************************************************)
(* Values.                                                                 *)
(*                                                                         *)
(* A number of the catalogue is kept as an exact decimal: sign, integer    *)
(* part and the digits after the point, without trailing zeros (0.0000 is  *)
(* the number 0, 8251830.80 is 8251830.8), so two numbers are equal        *)
(* exactly when their records are.                                         *)
(*                                                                         *)
(* An optional value is a tuple: absent (undefined) is the empty tuple, a  *)
(* supplied value v is <<v>>; an extent is its 4-tuple.                    *)
(***************************************************************************)
Pos(i, f) == [s |-> 1, i |-> i, f |-> f]
Neg(i, f) == [s |-> -1, i |-> i, f |-> f]

\* The decimal of an integer, and the integer of an integer-valued decimal.
D(k) == IF k < 0 THEN Neg(-k, <<>>) ELSE Pos(k, <<>>)
Val(d) == d.s * d.i

Absent == <<>>
Some(v) == <<v>>

(***************************************************************************)
(* The compiled catalogue.                                                 *)
(***************************************************************************)
proj4258 ==
  [def |-> "+proj=longlat +ellps=GRS80 +towgs84=0,0,0,0,0,0,0 +no_defs",
   extent |-> <<Neg(16, <<1>>), Pos(32, <<8, 8>>),
               Pos(39, <<6, 5>>), Pos(84, <<1, 7>>)>>,
   codes |-> <<"EPSG:4258",
              "urn:ogc:def:crs:EPSG::4258",
              "http://www.opengis.net/gml/srs/epsg.xml#4258">>,
   units |-> "d",
   metersPerUnit |-> Some(Pos(111319, <<4, 9, 0, 7, 9, 3, 2, 7, 3, 5, 8>>)),
   axisOrientation |-> Absent]

proj25828 ==
  [def |-> "+proj=utm +zone=28 +ellps=GRS80 +towgs84=0,0,0,0,0,0,0 +units=m +no_defs",
   extent |-> <<Pos(397101, <<0, 9>>), Pos(3638520, <<1, 4>>),
               Pos(1034670, <<4, 3>>), Pos(9625438, <<8, 2>>)>>,
   codes |-> <<"EPSG:25828",
              "urn:ogc:def:crs:EPSG::25828",
              "http://www.opengis.net/gml/srs/epsg.xml#25828">>,
   units |-> "m",
   metersPerUnit |-> Absent,
   axisOrientation |-> Absent]

proj25829 ==
  [def |-> "+proj=utm +zone=29 +ellps=GRS80 +towgs84=0,0,0,0,0,0,0 +units=m +no_defs",
   extent |-> <<Neg(164850, <<7, 8>>), Pos(3660417, <<0, 1>>),
               Pos(988728, <<5, 7>>), Pos(9567111, <<8, 5>>)>>,
   codes |-> <<"EPSG:25829",
              "urn:ogc:def:crs:EPSG::25829",
              "http://www.opengis.net/gml/srs/epsg.xml#25829">>,
   units |-> "m",
   metersPerUnit |-> Absent,
   axisOrientation |-> Absent]

proj25830 ==
  [def |-> "+proj=utm +zone=30 +ellps=GRS80 +towgs84=0,0,0,0,0,0,0 +units=m +no_defs",
   extent |-> <<Neg(729785, <<8, 3>>), Pos(3715125, <<8, 2>>),
               Pos(940929, <<6, 7>>), Pos(9518470, <<6, 9>>)>>,
   codes |-> <<"EPSG:25830",
              "urn:ogc:def:crs:EPSG::25830",
              "http://www.opengis.net/gml/srs/epsg.xml#23030">>,
   units |-> "m",
   metersPerUnit |-> Absent,
   axisOrientation |-> Absent]

proj25831 ==
  [def |-> "+proj=utm +zone=31 +ellps=GRS80 +towgs84=0,0,0,0,0,0,0 +units=m +no_defs",
   extent |-> <<Neg(1300111, <<7, 4>>), Pos(3804640, <<4, 3>>),
               Pos(893164, <<1, 3>>), Pos(9478718, <<3, 1>>)>>,
   codes |-> <<"EPSG:25831",
              "urn:ogc:def:crs:EPSG::25831",
              "http://www.opengis.net/gml/srs/epsg.xml#25831">>,
   units |-> "m",
   metersPerUnit |-> Absent,
   axisOrientation |-> Absent]

proj4230 ==
  [def |-> "+proj=longlat +ellps=intl +no_defs",
   extent |-> <<Neg(16, <<0, 9, 8, 8, 2, 1, 4, 5, 3, 5, 5, 9, 5, 5>>), Pos(25, <<7, 1, 1, 1, 1, 4, 3, 1, 0, 3, 3, 0, 9, 1, 7>>),
               Pos(48, <<6, 0, 9, 9, 9, 5, 2, 7, 7, 4, 9, 6, 0, 5>>), Pos(84, <<1, 6, 9, 7, 7, 3, 3, 6, 4, 1, 5, 4, 7, 2>>)>>,
   codes |-> <<"EPSG:4230",
              "urn:ogc:def:crs:EPSG::4230",
              "http://www.opengis.net/gml/srs/epsg.xml#4230">>,
   units |-> "d",
   metersPerUnit |-> Some(Pos(111319, <<4, 9, 0, 7, 9, 3, 2, 7, 3, 5, 8>>)),
   axisOrientation |-> Absent]

proj23028 ==
  [def |-> "+proj=utm +zone=28 +ellps=intl +towgs84=-87,-98,-121,0,0,0,0 +units=m +no_defs",
   extent |-> <<Pos(997517, <<9, 5>>), Pos(3873475, <<6, 1>>),
               Pos(2024693, <<0, 5>>), Pos(8529441, <<9, 9>>)>>,
   codes |-> <<"EPSG:23028",
              "urn:ogc:def:crs:EPSG::23028",
              "http://www.opengis.net/gml/srs/epsg.xml#23028">>,
   units |-> "m",
   metersPerUnit |-> Absent,
   axisOrientation |-> Absent]

proj23029 ==
  [def |-> "+proj=utm +zone=29 +ellps=intl +towgs84=-87,-98,-121,0,0,0,0 +units=m +no_defs",
   extent |-> <<Pos(448933, <<9, 1>>), Pos(3860083, <<9, 3>>),
               Pos(1860436, <<1, 1>>), Pos(8381369, <<1, 6>>)>>,
   codes |-> <<"EPSG:23029",
              "urn:ogc:def:crs:EPSG::23029",
              "http://www.opengis.net/gml/srs/epsg.xml#23029">>,
   units |-> "m",
   metersPerUnit |-> Absent,
   axisOrientation |-> Absent]

proj23030 ==
  [def |-> "+proj=utm +zone=30 +ellps=intl +towgs84=-87,-98,-121,0,0,0,0 +units=m +no_defs",
   extent |-> <<Neg(99844, <<7, 1>>), Pos(3879626, <<6, 3>>),
               Pos(1682737, <<7, 2>>), Pos(8251830, <<8>>)>>,
   codes |-> <<"EPSG:23030",
              "urn:ogc:def:crs:EPSG::23030",
              "http://www.opengis.net/gml/srs/epsg.xml#23030">>,
   units |-> "m",
   metersPerUnit |-> Absent,
   axisOrientation |-> Absent]

proj23031 ==
  [def |-> "+proj=utm +zone=31 +ellps=intl +towgs84=-87,-98,-121,0,0,0,0 +units=m +no_defs",
   extent |-> <<Neg(650883, <<1, 6>>), Pos(3932764, <<9, 7>>),
               Pos(1493695, <<9, 1>>), Pos(8141744, <<8, 4>>)>>,
   codes |-> <<"EPSG:23031",
              "urn:ogc:def:crs:EPSG::23031",
              "http://www.opengis.net/gml/srs/epsg.xml#23031">>,
   units |-> "m",
   metersPerUnit |-> Absent,
   axisOrientation |-> Absent]

proj4326 ==
  [def |-> "+proj=longlat +datum=WGS84 +no_defs",
   extent |-> <<Neg(180, <<>>), Neg(90, <<>>),
               Pos(180, <<>>), Pos(90, <<>>)>>,
   codes |-> <<"EPSG:4326",
              "urn:ogc:def:crs:EPSG::4326",
              "urn:ogc:def:crs:OGC:1.3:CRS84",
              "http://www.opengis.net/def/crs/OGC/1.3/CRS84">>,
   units |-> "d",
   metersPerUnit |-> Some(Pos(111319, <<4, 9, 0, 7, 9, 3, 2, 7, 3, 5, 8>>)),
   axisOrientation |-> Some("neu")]

proj32627 ==
  [def |-> "+proj=utm +zone=27 +ellps=WGS84 +datum=WGS84 +units=m +no_defs",
   extent |-> <<Pos(166021, <<4, 4, 3, 1>>), Pos(0, <<>>),
               Pos(833978, <<5, 5, 6, 9>>), Pos(9329005, <<1, 8, 2, 5>>)>>,
   codes |-> <<"EPSG:32627",
              "urn:ogc:def:crs:EPSG::32627",
              "http://www.opengis.net/gml/srs/epsg.xml#32627">>,
   units |-> "m",
   metersPerUnit |-> Absent,
   axisOrientation |-> Absent]

proj32628 ==
  [def |-> "+proj=utm +zone=28 +ellps=WGS84 +datum=WGS84 +units=m +no_defs",
   extent |-> <<Pos(166021, <<4, 4, 3, 1, 7, 9, 3, 3, 1, 7, 8>>), Pos(0, <<>>),
               Pos(833978, <<5, 5, 6, 8, 2, 0, 6, 6, 7, 8>>), Pos(9329005, <<1, 8, 3, 0, 1, 6, 1, 4>>)>>,
   codes |-> <<"EPSG:32628",
              "urn:ogc:def:crs:EPSG::32628",
              "http://www.opengis.net/gml/srs/epsg.xml#32628">>,
   units |-> "m",
   metersPerUnit |-> Absent,
   axisOrientation |-> Absent]

proj32629 ==
  [def |-> "+proj=utm +zone=29 +ellps=WGS84 +datum=WGS84 +units=m +no_defs",
   extent |-> <<Pos(166021, <<4, 4, 3, 1>>), Pos(0, <<>>),
               Pos(833978, <<5, 5, 6, 9>>), Pos(9329005, <<1, 8, 2, 5>>)>>,
   codes |-> <<"EPSG:32629",
              "urn:ogc:def:crs:EPSG::32629",
              "http://www.opengis.net/gml/srs/epsg.xml#32629">>,
   units |-> "m",
   metersPerUnit |-> Absent,
   axisOrientation |-> Absent]

proj32630 ==
  [def |-> "+proj=utm +zone=30 +ellps=WGS84 +datum=WGS84 +units=m +no_defs",
   extent |-> <<Pos(166021, <<4, 4, 3, 1>>), Pos(0, <<>>),
               Pos(833978, <<5, 5, 6, 9>>), Pos(9329005, <<1, 8, 2, 5>>)>>,
   codes |-> <<"EPSG:32630",
              "urn:ogc:def:crs:EPSG::32630",
              "http://www.opengis.net/gml/srs/epsg.xml#32630">>,
   units |-> "m",
   metersPerUnit |-> Absent,
   axisOrientation |-> Absent]

proj32631 ==
  [def |-> "+proj=utm +zone=31 +ellps=WGS84 +datum=WGS84 +units=m +no_defs",
   extent |-> <<Pos(166021, <<4, 4, 3, 1>>), Pos(0, <<>>),
               Pos(833978, <<5, 5, 6, 9>>), Pos(9329005, <<1, 8, 2, 5>>)>>,
   codes |-> <<"EPSG:32631",
              "urn:ogc:def:crs:EPSG::32631",
              "http://www.opengis.net/gml/srs/epsg.xml#32631">>,
   units |-> "m",
   metersPerUnit |-> Absent,
   axisOrientation |-> Absent]

proj4081 ==
  [def |-> "+proj=longlat +ellps=GRS80 +towgs84=0,0,0,0,0,0,0 +no_defs",
   extent |-> <<Neg(21, <<9, 3>>), Pos(24, <<6>>),
               Neg(11, <<7, 5>>), Pos(32, <<7, 6>>)>>,
   codes |-> <<"EPSG:4081",
              "urn:ogc:def:crs:EPSG::4081",
              "http://www.opengis.net/gml/srs/epsg.xml#4081">>,
   units |-> "d",
   metersPerUnit |-> Some(Pos(111319, <<4, 9, 0, 7, 9, 3, 2, 7, 3, 5, 8>>)),
   axisOrientation |-> Absent]

proj4082 ==
  [def |-> "+proj=utm +zone=27 +ellps=GRS80 +towgs84=0,0,0,0,0,0,0 +units=m +no_defs",
   extent |-> <<Pos(405849, <<7, 1>>), Pos(2720975, <<6>>),
               Pos(1367994, <<7, 7>>), Pos(3662797, <<1, 5>>)>>,
   codes |-> <<"EPSG:4082",
              "urn:ogc:def:crs:EPSG::4082",
              "http://www.opengis.net/gml/srs/epsg.xml#4082">>,
   units |-> "m",
   metersPerUnit |-> Absent,
   axisOrientation |-> Absent]

proj4083 ==
  [def |-> "+proj=utm +zone=28 +ellps=GRS80 +towgs84=0,0,0,0,0,0,0 +units=m +no_defs ",
   extent |-> <<Neg(202677, <<9, 4>>), Pos(2738405, <<4, 8>>),
               Pos(804488, <<9, 2>>), Pos(3629357, <<1>>)>>,
   codes |-> <<"EPSG:4083",
              "urn:ogc:def:crs:EPSG::4083",
              "http://www.opengis.net/gml/srs/epsg.xml#4083">>,
   units |-> "m",
   metersPerUnit |-> Absent,
   axisOrientation |-> Absent]

proj3395 ==
  [def |-> "+proj=merc +ellps=WGS84 +datum=WGS84 +units=m +no_defs",
   extent |-> <<Neg(20026376, <<3, 9>>), Pos(15496570, <<7, 4>>),
               Pos(20026376, <<3, 9>>), Pos(18764656, <<2, 3>>)>>,
   codes |-> <<"EPSG:3395",
              "urn:ogc:def:crs:EPSG::3395",
              "http://www.opengis.net/gml/srs/epsg.xml#3395">>,
   units |-> "m",
   metersPerUnit |-> Absent,
   axisOrientation |-> Absent]

projections ==
  <<proj4326, proj32627, proj32628, proj32629, proj32630, proj32631,
    proj4258, proj25829, proj25828, proj25830, proj25831, proj4230,
    proj23028, proj23029, proj23030, proj23031, proj4081, proj4082,
    proj4083, proj3395>>

CatalogueCodes == UNION {Range(projections[i].codes) : i \in DOMAIN projections}

\* A code that is neither in the catalogue nor built into the engine.
UnknownCode == "EPSG:9999"

(***************************************************************************)
(* State.                                                                  *)
(*   proj4defs  proj4's table: code -> definition string                   *)
(*   projCache  the transform engine's table: code -> projection object   *)
(*   regIdx     number of catalogue definitions addProjections has done   *)
(*   loaded     register(proj4) has run: the module is loaded             *)
(*   call       the utility call being made, with its inputs and outcome  *)
(***************************************************************************)
VARIABLES proj4defs, projCache, regIdx, loaded, call

vars == <<proj4defs, projCache, regIdx, loaded, call>>

EmptyMap == [c \in {} |-> c]

\* Writing key k of a table: a later write replaces an earlier one.
Put(map, k, v) == (k :> v) @@ map

\* new OLProjection({code, extent, units, metersPerUnit, axisOrientation})
NewOLProjection(code, projection) ==
  [code |-> code,
   extent |-> projection.extent,
   units |-> projection.units,
   metersPerUnit |-> projection.metersPerUnit,
   axisOrientation |-> projection.axisOrientation]

\* projection.codes.forEach(code => proj4.defs(code, projection.def))
RECURSIVE DefsForEach(_, _, _)
DefsForEach(defs, projection, i) ==
  IF i > Len(projection.codes) THEN defs
  ELSE DefsForEach(Put(defs, projection.codes[i], projection.def), projection, i + 1)

\* addEquivalentProjections(projection.codes.map(code => new OLProjection(...)))
RECURSIVE AddEquivalentProjections(_, _, _)
AddEquivalentProjections(cache, projection, i) ==
  IF i > Len(projection.codes) THEN cache
  ELSE AddEquivalentProjections(
         Put(cache, projection.codes[i], NewOLProjection(projection.codes[i], projection)),
         projection, i + 1)

\* ol/proj get(code): the registered projection, or null.
IsRegistered(cache, code) == code \in DOMAIN cache

NoCall == [op |-> "none"]

Init ==
  /\ proj4defs = EmptyMap
  /\ projCache = EmptyMap
  /\ regIdx = 0
  /\ loaded = FALSE
  /\ call = NoCall

\* One iteration of projectionsParam.forEach in addProjections(projections).
AddProjection ==
  /\ regIdx < Len(projections)
  /\ LET projection == projections[regIdx + 1] IN
       /\ proj4defs' = DefsForEach(proj4defs, projection, 1)
       /\ projCache' = AddEquivalentProjections(projCache, projection, 1)
  /\ regIdx' = regIdx + 1
  /\ UNCHANGED <<loaded, call>>

\* register(proj4): every code proj4 knows that the engine does not yet know
\* gets a projection object; the transforms between all codes are installed.
RegisterCodes(cache, defs) ==
  [code \in DOMAIN cache \cup DOMAIN defs |->
     IF IsRegistered(cache, code) THEN cache[code]
     ELSE [code |-> code, extent |-> Absent, units |-> "undefined",
           metersPerUnit |-> Absent, axisOrientation |-> Absent]]

Register ==
  /\ regIdx = Len(projections)
  /\ ~loaded
  /\ projCache' = RegisterCodes(projCache, proj4defs)
  /\ loaded' = TRUE
  /\ UNCHANGED <<proj4defs, regIdx, call>>

\* The call returns to its caller; the module keeps nothing of it.
Return ==
  /\ call # NoCall
  /\ call' = NoCall
  /\ UNCHANGED <<proj4defs, projCache, regIdx, loaded>>

(***************************************************************************)
(* Numbers.  Integers are exact; the quotients the utilities compute are   *)
(* kept as fractions n/d in lowest terms (d > 0).                          *)
(***************************************************************************)
RECURSIVE Gcd(_, _)
Gcd(a, b) == IF b = 0 THEN a ELSE Gcd(b, a % b)

Abs(x) == IF x < 0 THEN -x ELSE x

Q(n, d) ==
  LET g == Gcd(Abs(n), Abs(d))
      s == IF d < 0 THEN -1 ELSE 1
  IN  IF n = 0 THEN [n |-> 0, d |-> 1] ELSE [n |-> s * (n \div g), d |-> s * (d \div g)]

QInt(k) == [n |-> k, d |-> 1]
QDivInt(q, k) == Q(q.n, q.d * k)
QLess(a, b) == a.n * b.d < b.n * a.d

RECURSIVE Pow2(_)
Pow2(i) == IF i = 0 THEN 1 ELSE 2 * Pow2(i - 1)

\* M/util/Utils isNullOrEmpty on the values above.
isNullOrEmpty(x) == x = <<>>

\* ol/extent getWidth, on extents of integer-valued numbers.
getWidth(extent) == Val(extent[3]) - Val(extent[1])

(***************************************************************************)
(* Utils.generateResolutions(projection, extent, minZoom, maxZoom)         *)
(***************************************************************************)
defaultMaxZoom == 20

\* Local variables declared with `let` and never assigned are undefined.
Undefined == <<>>

\* A ladder that divides by the index instead of the power of two.
ResolutionLadderByIndex(size, zoomLevels) ==
  [i \in 1..zoomLevels |-> QDivInt(size, i)]

\* generatedResolutions[i] = size / (2 ** i) for i in [0, zoomLevels)
ResolutionLadder(size, zoomLevels) ==
  [i \in 1..zoomLevels |-> QDivInt(size, Pow2(i - 1))]

\* A ladder whose absent minimum zoom defaults to 1 instead of 0.
generateResolutionsFromZoomOne(projection, extent, minZoom, maxZoom) ==
  LET newExtent == IF isNullOrEmpty(extent) THEN projection.extent ELSE Undefined
      newMinZoom == IF isNullOrEmpty(minZoom) THEN Some(1) ELSE Undefined
      newMaxZoom == IF isNullOrEmpty(maxZoom) THEN Some(defaultMaxZoom) ELSE Undefined
  IN  IF newExtent = Undefined
        THEN [outcome |-> "TypeError: undefined extent", result |-> <<>>]
      ELSE IF newMinZoom = Undefined \/ newMaxZoom = Undefined
        THEN [outcome |-> "ok", result |-> <<>>]
      ELSE [outcome |-> "ok",
            result |-> ResolutionLadder(QDivInt(QInt(getWidth(newExtent)), 256),
                                        newMaxZoom[1] - newMinZoom[1])]

generateResolutions(projection, extent, minZoom, maxZoom) ==
  LET newExtent == IF isNullOrEmpty(extent) THEN projection.extent ELSE Undefined
      newMinZoom == IF isNullOrEmpty(minZoom) THEN Some(0) ELSE Undefined
      newMaxZoom == IF isNullOrEmpty(maxZoom) THEN Some(defaultMaxZoom) ELSE Undefined
  IN  IF newExtent = Undefined
        THEN \* getWidth(undefined) reads index 2 of undefined
             [outcome |-> "TypeError: undefined extent", result |-> <<>>]
      ELSE IF newMinZoom = Undefined \/ newMaxZoom = Undefined
        THEN \* zoomLevels is NaN: the loop body never runs
             [outcome |-> "ok", result |-> <<>>]
      ELSE [outcome |-> "ok",
            result |-> ResolutionLadder(QDivInt(QInt(getWidth(newExtent)), 256),
                                        newMaxZoom[1] - newMinZoom[1])]

\* Projection objects handed to the numeric utilities.
MaxWidthUnits == 2

Extent(a, b, c, d) == <<D(a), D(b), D(c), D(d)>>

GridProjections ==
  {[code |-> "EPSG:4326", extent |-> proj4326.extent]} \cup
  {[code |-> "GRID", extent |-> Extent(0, 0, 2560 * w, 2560 * w)] : w \in 1..MaxWidthUnits}

ArgExtents == {Absent, Extent(0, 0, 2560, 2560), Extent(-256, 0, 256, 512)}
MaxZoomArg == 3
ArgMinZooms == {Absent} \cup {Some(z) : z \in 0..1}
ArgMaxZooms == {Absent} \cup {Some(z) : z \in 2..MaxZoomArg}

GenerateResolutions ==
  /\ loaded
  /\ call = NoCall
  /\ \E projection \in GridProjections, extent \in ArgExtents,
        minZoom \in ArgMinZooms, maxZoom \in ArgMaxZooms :
       LET r == generateResolutions(projection, extent, minZoom, maxZoom) IN
       call' = [op |-> "generateResolutions", projection |-> projection,
                extent |-> extent, minZoom |-> minZoom, maxZoom |-> maxZoom,
                outcome |-> r.outcome, result |-> r.result]
  /\ UNCHANGED <<proj4defs, projCache, regIdx, loaded>>

(***************************************************************************)
(* The transform engine's lookups (ol/proj get, getTransform).  The        *)
(* projection arithmetic itself belongs to the engine; ProjectXY stands    *)
(* for it: between equal definitions it is a copy, between different ones  *)
(* it moves the pair, and the way back undoes the way there.               *)
(***************************************************************************)
\* A lookup that answers an unregistered code with EPSG:4326.
getProjOrDefault(cache, code) ==
  IF IsRegistered(cache, code) THEN Some(cache[code]) ELSE Some(cache["EPSG:4326"])

\* ol/proj get(code): the registered projection, or null (Absent).
getProj(cache, code) == IF IsRegistered(cache, code) THEN Some(cache[code]) ELSE Absent

DefIndex(def) ==
  CHOOSE i \in DOMAIN projections :
    /\ projections[i].def = def
    /\ \A j \in DOMAIN projections : projections[j].def = def => i <= j

ProjectXY(sourceDef, destinationDef, xy) ==
  LET shift == 100 * (DefIndex(sourceDef) - DefIndex(destinationDef))
  IN <<xy[1] + shift, xy[2] - shift>>

\* getTransform(codeProjection, 'EPSG:4326'): the pair of definitions the
\* transform goes between; Absent stands for the failure of the lookup (a
\* null projection is dereferenced).
getTransform(cache, defs, code) ==
  LET sourceProjection == getProj(cache, code)
      destinationProjection == getProj(cache, "EPSG:4326")
  IN IF sourceProjection = Absent \/ destinationProjection = Absent THEN Absent
     ELSE Some(<<defs[sourceProjection[1].code], defs[destinationProjection[1].code]>>)

(***************************************************************************)
(* geojsonTo4326(featuresAsJSON, codeProjection)                           *)
(*                                                                         *)
(* Leaf coordinate arrays are objects: `heap` maps an address to the       *)
(* array stored there, and a coordinates structure holds addresses at its  *)
(* leaves.  The arrays the function builds around the leaves are new.      *)
(***************************************************************************)
\* getXY: a copy of the first two ordinates.
getXY(coordinatesSet) == SubSeq(coordinatesSet, 1, IF Len(coordinatesSet) > 2 THEN 2 ELSE Len(coordinatesSet))

\* A replacement that keeps the new pair and drops the other ordinates.
getFullCoordinatesPairOnly(heap, oldCoordinates, newXY) ==
  [heap |-> [heap EXCEPT ![oldCoordinates] = newXY], ref |-> oldCoordinates]

\* getFullCoordinates: newCoordinates IS oldCoordinates (the same array);
\* its first two ordinates are overwritten and the array is returned.
getFullCoordinates(heap, oldCoordinates, newXY) ==
  [heap |-> [heap EXCEPT ![oldCoordinates] = [@ EXCEPT ![1] = newXY[1], ![2] = newXY[2]]],
   ref |-> oldCoordinates]

\* getTransformedCoordinates(codeProjection, oldCoordinates)
getTransformedCoordinates(cache, defs, heap, codeProjection, oldCoordinates) ==
  LET transformFunction == getTransform(cache, defs, codeProjection) IN
  IF transformFunction = Absent
  THEN [ok |-> FALSE, heap |-> heap, out |-> 0]
  ELSE LET r == getFullCoordinates(heap, oldCoordinates,
                                   ProjectXY(transformFunction[1][1], transformFunction[1][2],
                                             getXY(heap[oldCoordinates])))
       IN [ok |-> TRUE, heap |-> r.heap, out |-> r.ref]

\* A switch whose default case runs the loop of a LineString.
DepthDefaultAsLine(type) ==
  CASE type = "Point" -> 0
    [] type \in {"MultiPoint", "LineString"} -> 1
    [] type \in {"MultiLineString", "Polygon"} -> 2
    [] type = "MultiPolygon" -> 3
    [] OTHER -> 1

\* Nesting depth of the loops of each case of the switch; -1: default case.
Depth(type) ==
  CASE type = "Point" -> 0
    [] type \in {"MultiPoint", "LineString"} -> 1
    [] type \in {"MultiLineString", "Polygon"} -> 2
    [] type = "MultiPolygon" -> 3
    [] OTHER -> -1

\* The loops of one case: depth 0 transforms a leaf; depth d runs
\* `for (i = 0; i < coordinates.length; i += 1)` around depth d - 1 and
\* pushes every result on a new array.  An exception ends every loop.
RECURSIVE TransformNested(_, _, _, _, _, _)
RECURSIVE TransformLoop(_, _, _, _, _, _, _, _)
RECURSIVE TransformLoopStoppingEarly(_, _, _, _, _, _, _, _)
TransformNested(cache, defs, heap, code, coordinates, depth) ==
  IF depth = 0
  THEN getTransformedCoordinates(cache, defs, heap, code, coordinates)
  ELSE TransformLoop(cache, defs, heap, code, coordinates, depth, 1, <<>>)

\* A loop that stops one element early.
TransformLoopStoppingEarly(cache, defs, heap, code, coordinates, depth, i, acc) ==
  IF i >= Len(coordinates) THEN [ok |-> TRUE, heap |-> heap, out |-> acc]
  ELSE LET r == TransformNested(cache, defs, heap, code, coordinates[i], depth - 1) IN
       IF ~r.ok THEN r
       ELSE TransformLoopStoppingEarly(cache, defs, r.heap, code, coordinates, depth, i + 1,
                                       Append(acc, r.out))

TransformLoop(cache, defs, heap, code, coordinates, depth, i, acc) ==
  IF i > Len(coordinates) THEN [ok |-> TRUE, heap |-> heap, out |-> acc]
  ELSE LET r == TransformNested(cache, defs, heap, code, coordinates[i], depth - 1) IN
       IF ~r.ok THEN r
       ELSE TransformLoop(cache, defs, r.heap, code, coordinates, depth, i + 1,
                          Append(acc, r.out))

\* A feature rebuilt without the identifier of the previous one.
createGeoJSONFeatureWithoutId(previousFeature, coordinates) ==
  [type |-> previousFeature.type, properties |-> previousFeature.properties,
   geometry |-> [type |-> previousFeature.geometry.type, coordinates |-> coordinates]]

\* createGeoJSONFeature(previousFeature, coordinates)
createGeoJSONFeature(previousFeature, coordinates) ==
  [previousFeature EXCEPT
     !.geometry = [type |-> previousFeature.geometry.type, coordinates |-> coordinates]]

\* featuresAsJSON.forEach(...), from feature i on.
RECURSIVE geojsonForEach(_, _, _, _, _, _, _)
geojsonForEach(cache, defs, heap, featuresAsJSON, codeProjection, i, jsonResult) ==
  IF i > Len(featuresAsJSON) THEN [ok |-> TRUE, heap |-> heap, out |-> jsonResult]
  ELSE LET featureAsJSON == featuresAsJSON[i]
           depth == Depth(featureAsJSON.geometry.type)
           r == IF depth = -1 THEN [ok |-> TRUE, heap |-> heap, out |-> <<>>]
                ELSE TransformNested(cache, defs, heap, codeProjection,
                                     featureAsJSON.geometry.coordinates, depth)
       IN IF ~r.ok THEN [ok |-> FALSE, heap |-> r.heap, out |-> <<>>]
          ELSE geojsonForEach(cache, defs, r.heap, featuresAsJSON, codeProjection, i + 1,
                              Append(jsonResult, createGeoJSONFeature(featureAsJSON, r.out)))

geojsonTo4326(cache, defs, heap, featuresAsJSON, codeProjection) ==
  geojsonForEach(cache, defs, heap, featuresAsJSON, codeProjection, 1, <<>>)

\* Inputs: up to MaxFeatures features; every list of a feature has the same
\* length len <= MaxLen (a type without a case of its own has a flat list);
\* the leaf at address a has two ordinates when a is odd and a third one
\* (an elevation) when a is even.
MaxFeatures == 2
MaxLen == 2

GeoJSONTypes ==
  {"Point", "MultiPoint", "LineString", "MultiLineString", "Polygon", "MultiPolygon",
   "GeometryCollection"}

LeafAt(a) == IF a % 2 = 1 THEN <<a, a + 10>> ELSE <<a, a + 10, a + 20>>

LeafCap(len) == IF len = 0 THEN 1 ELSE len * len * len

CoordinatesAt(type, len, base) ==
  CASE Depth(type) = 0 -> base + 1
    [] Depth(type) = 1 -> [i \in 1..len |-> base + i]
    [] Depth(type) = 2 -> [i \in 1..len |-> [j \in 1..len |-> base + (i - 1) * len + j]]
    [] Depth(type) = 3 ->
         [i \in 1..len |-> [j \in 1..len |-> [k \in 1..len |->
            base + ((i - 1) * len + (j - 1)) * len + k]]]
    [] OTHER -> [i \in 1..len |-> base + i]

FeatureAt(type, len, k) ==
  [type |-> "Feature", id |-> k, properties |-> [name |-> k],
   geometry |-> [type |-> type, coordinates |-> CoordinatesAt(type, len, (k - 1) * LeafCap(len))]]

GeoJSONCodes ==
  {"EPSG:4326", "EPSG:25830", "http://www.opengis.net/gml/srs/epsg.xml#23030", UnknownCode}

GeojsonTo4326 ==
  /\ loaded
  /\ call = NoCall
  /\ \E n \in 0..MaxFeatures, len \in 0..MaxLen, codeProjection \in GeoJSONCodes :
     \E types \in [1..n -> GeoJSONTypes] :
       LET heap == [a \in 1..(n * LeafCap(len)) |-> LeafAt(a)]
           featuresAsJSON == [k \in 1..n |-> FeatureAt(types[k], len, k)]
           r == geojsonTo4326(projCache, proj4defs, heap, featuresAsJSON, codeProjection)
       IN call' = [op |-> "geojsonTo4326", features |-> featuresAsJSON,
                   code |-> codeProjection, heap |-> heap,
                   outcome |-> IF r.ok THEN "ok" ELSE "TypeError: null projection",
                   heapAfter |-> r.heap, result |-> r.out]
  /\ UNCHANGED <<proj4defs, projCache, regIdx, loaded>>

(***************************************************************************)
(* Render features (ol/render/Feature) and their decoding.                 *)
(*                                                                         *)
(* The arrays and the property map of a render feature are objects on      *)
(* `heap`; the render feature holds their addresses.                       *)
(***************************************************************************)
KnownTypes ==
  {"Point", "LineString", "LinearRing", "Polygon", "MultiPoint", "MultiLineString",
   "MultiPolygon", "GeometryCollection", "Circle"}

NullGeometry == [type |-> "null"]
UndefinedGeometry == [type |-> "undefined"]

\* ol/extent getHeight, on extents of integer-valued numbers.
getHeight(extent) == Val(extent[4]) - Val(extent[2])

(* The geometry constructors of ol/geom, called with a flat array of       *)
(* numbers and no layout.  Without a layout a constructor reads its first  *)
(* argument as nested coordinate arrays (or, for the multi-geometries, as  *)
(* a list of geometries):                                                  *)
(*   - Point takes the whole array as its one coordinate;                  *)
(*   - LineString, LinearRing and MultiPoint find no ordinates in a number *)
(*     and end up with no coordinates;                                     *)
(*   - Polygon and MultiPolygon read two and three levels down, and        *)
(*     MultiLineString asks each element for its layout: on a non-empty    *)
(*     array of numbers they raise a TypeError.                            *)
olPoint(coordinates) ==
  [outcome |-> "ok", geometry |-> [type |-> "Point", coordinates |-> coordinates]]

olLineString(coordinates) ==
  [outcome |-> "ok", geometry |-> [type |-> "LineString", coordinates |-> <<>>]]

olLinearRing(coordinates) ==
  [outcome |-> "ok", geometry |-> [type |-> "LinearRing", coordinates |-> <<>>]]

olPolygon(coordinates) ==
  IF coordinates = <<>>
  THEN [outcome |-> "ok", geometry |-> [type |-> "Polygon", coordinates |-> <<>>]]
  ELSE [outcome |-> "TypeError: not a geometry argument", geometry |-> UndefinedGeometry]

olMultiPoint(coordinates) ==
  [outcome |-> "ok", geometry |-> [type |-> "MultiPoint", coordinates |-> <<>>]]

olMultiLineString(coordinates, ends) ==
  IF coordinates = <<>>
  THEN [outcome |-> "ok", geometry |-> [type |-> "MultiLineString", coordinates |-> <<>>]]
  ELSE [outcome |-> "TypeError: not a geometry argument", geometry |-> UndefinedGeometry]

olMultiPolygon(coordinates, endss) ==
  IF coordinates = <<>>
  THEN [outcome |-> "ok", geometry |-> [type |-> "MultiPolygon", coordinates |-> <<>>]]
  ELSE [outcome |-> "TypeError: not a geometry argument", geometry |-> UndefinedGeometry]

\* new Circle(olRenderFeature.getFlatInteriorPoint()): the interior point is
\* the engine's; it is kept as the term it is computed from.
olCircle(coordinates, ends) ==
  [outcome |-> "ok",
   geometry |-> [type |-> "Circle",
                 center |-> [interiorPointOf |-> coordinates, ends |-> ends]]]

\* A decoder whose default case builds a Point instead of null.
getGeometryFromRenderFeatureDefaultPoint(heap, olRenderFeature) ==
  LET coordinates == heap[olRenderFeature.flatCoordinates]
      ends == heap[olRenderFeature.ends]
      endss == heap[olRenderFeature.ends]
      type == olRenderFeature.type
  IN CASE type = "Point" -> olPoint(coordinates)
       [] type = "LineString" -> olLineString(coordinates)
       [] type = "LinearRing" -> olLinearRing(coordinates)
       [] type = "Polygon" -> olPolygon(coordinates)
       [] type = "MultiPoint" -> olMultiPoint(coordinates)
       [] type = "MultiLineString" -> olMultiLineString(coordinates, ends)
       [] type = "MultiPolygon" -> olMultiPolygon(coordinates, endss)
       [] type = "GeometryCollection" -> [outcome |-> "TypeError: not a geometry argument", geometry |-> UndefinedGeometry]
       [] type = "Circle" -> olCircle(coordinates, ends)
       [] OTHER -> olPoint(coordinates)

\* Utils.getGeometryFromRenderFeature(olRenderFeature).  getEndss is the
\* same accessor as getEnds; a render feature has no getGeometries, so the
\* GeometryCollection case raises a TypeError.
getGeometryFromRenderFeature(heap, olRenderFeature) ==
  LET coordinates == heap[olRenderFeature.flatCoordinates]
      ends == heap[olRenderFeature.ends]
      endss == heap[olRenderFeature.ends]
      type == olRenderFeature.type
  IN CASE type = "Point" -> olPoint(coordinates)
       [] type = "LineString" -> olLineString(coordinates)
       [] type = "LinearRing" -> olLinearRing(coordinates)
       [] type = "Polygon" -> olPolygon(coordinates)
       [] type = "MultiPoint" -> olMultiPoint(coordinates)
       [] type = "MultiLineString" -> olMultiLineString(coordinates, ends)
       [] type = "MultiPolygon" -> olMultiPolygon(coordinates, endss)
       [] type = "GeometryCollection" -> [outcome |-> "TypeError: not a geometry argument", geometry |-> UndefinedGeometry]
       [] type = "Circle" -> olCircle(coordinates, ends)
       [] OTHER -> [outcome |-> "ok", geometry |-> NullGeometry]

\* Utils.cloneOLRenderFeature(olRenderFeature): new arrays for the flat
\* coordinates and the ends, the same property map.
cloneOLRenderFeature(heap, olRenderFeature) ==
  LET clonedFlatCoordinates == heap[olRenderFeature.flatCoordinates]
      clonedEnds == heap[olRenderFeature.ends]
  IN [heap |-> heap \o <<clonedFlatCoordinates, clonedEnds>>,
      feature |-> [type |-> olRenderFeature.type,
                   flatCoordinates |-> Len(heap) + 1,
                   ends |-> Len(heap) + 2,
                   properties |-> olRenderFeature.properties,
                   id |-> olRenderFeature.id]]

\* RenderFeature.transform(source, destination): every pair of the flat
\* array is moved, in place, from the pixel extent of the tile projection
\* to its world extent; the destination plays no part.
renderFeatureTransform(heap, olRenderFeature, source) ==
  LET pixelExtent == source.extent[1]
      projectedExtent == source.worldExtent[1]
      scale == getHeight(projectedExtent) \div getHeight(pixelExtent)
      flat == heap[olRenderFeature.flatCoordinates]
  IN [heap EXCEPT ![olRenderFeature.flatCoordinates] =
        [k \in DOMAIN flat |->
           IF k % 2 = 1 THEN Val(projectedExtent[1]) + scale * flat[k]
           ELSE Val(projectedExtent[4]) - scale * flat[k]]]

\* M/util/Utils generateRandom(prefix): the prefix followed by random digits.
generateRandom(prefix, digits) == prefix \o digits

\* An identifier taken from the input whenever it is defined.
setIdWhenDefined(id, digits) ==
  IF id # Absent THEN id[1] ELSE generateRandom("mapea_feature_", digits)

\* olFeature.setId(...): the identifier of the render feature, or a
\* generated one when isNullOrEmpty(id): null, undefined or the empty string.
setId(id, digits) ==
  IF id \notin {Absent, Some("")} THEN id[1] ELSE generateRandom("mapea_feature_", digits)

\* Utils.olRenderFeature2olFeature(olRenderFeature, tileProjection, mapProjection)
\*   decodedFrom: address of the flat array handed to the decoder (0: none)
olRenderFeature2olFeature(heap, olRenderFeatureArg, tileProjection, mapProjection, digits) ==
  IF isNullOrEmpty(olRenderFeatureArg)
  THEN [outcome |-> "ok", feature |-> Absent, heap |-> heap,
        cloned |-> FALSE, transformed |-> FALSE, decodedFrom |-> 0,
        decoded |-> UndefinedGeometry]
  ELSE
  LET olRenderFeature == olRenderFeatureArg[1]
      id == olRenderFeature.id
      properties == olRenderFeature.properties
      direct == isNullOrEmpty(tileProjection) /\ isNullOrEmpty(tileProjection)
      doClone == /\ ~direct
                 /\ ~isNullOrEmpty(tileProjection[1].extent)
                 /\ ~isNullOrEmpty(tileProjection[1].worldExtent)
      c == cloneOLRenderFeature(heap, olRenderFeature)
      heap2 == IF doClone THEN renderFeatureTransform(c.heap, c.feature, tileProjection[1])
               ELSE heap
      source == IF doClone THEN c.feature ELSE olRenderFeature
      g == IF direct \/ doClone THEN getGeometryFromRenderFeature(heap2, source)
           ELSE [outcome |-> "ok", geometry |-> UndefinedGeometry]
  IN IF g.outcome # "ok"
     THEN [outcome |-> g.outcome, feature |-> Absent, heap |-> heap2,
           cloned |-> doClone, transformed |-> doClone,
           decodedFrom |-> source.flatCoordinates, decoded |-> UndefinedGeometry]
     ELSE [outcome |-> "ok",
           feature |-> Some([id |-> setId(id, digits),
                             properties |-> heap2[properties],
                             geometry |-> g.geometry]),
           heap |-> heap2, cloned |-> doClone, transformed |-> doClone,
           decodedFrom |-> IF direct \/ doClone THEN source.flatCoordinates ELSE 0,
           decoded |-> g.geometry]

\* Inputs.  A flat array of p pairs holds 1..2p; ends are increasing even
\* indices, some of them past the end of the array.
MaxPairs == 4
MaxTileScale == 2

FlatArrays == {[k \in 1..(2 * p) |-> k] : p \in 0..MaxPairs}
EndIndices == {2 * e : e \in 1..(MaxPairs + 1)}
EndsArrays ==
  {<<>>} \cup {<<e>> : e \in EndIndices}
         \cup {es \in EndIndices \X EndIndices : es[1] < es[2]}

TileProjections ==
  {[code |-> "TILE", extent |-> Some(Extent(0, 0, 4, 4)),
    worldExtent |-> Some(Extent(0, 0, 4 * s, 4 * s))] : s \in 1..MaxTileScale}
  \cup {[code |-> "TILE", extent |-> Some(Extent(0, 0, 4, 4)), worldExtent |-> Absent],
        [code |-> "TILE", extent |-> Absent, worldExtent |-> Some(Extent(0, 0, 8, 8))]}

MapProjections == {[code |-> "EPSG:3857"]}

RandomDigits == {"17", "42"}

RenderFeatures ==
  {[type |-> t, flatCoordinates |-> 1, ends |-> 2, properties |-> 3, id |-> i] :
     t \in KnownTypes \cup {"Unknown"}, i \in {Absent, Some(""), Some("rf1")}}

OlRenderFeature2olFeature ==
  /\ loaded
  /\ call = NoCall
  /\ \E flat \in FlatArrays, ends \in EndsArrays,
        rfArg \in {Absent} \cup {Some(f) : f \in RenderFeatures},
        tileProjection \in {Absent} \cup {Some(p) : p \in TileProjections},
        mapProjection \in {Absent} \cup {Some(p) : p \in MapProjections},
        digits \in RandomDigits :
       LET heap == <<flat, ends, [layer |-> "l1"]>>
           r == olRenderFeature2olFeature(heap, rfArg, tileProjection, mapProjection, digits)
       IN call' = [op |-> "olRenderFeature2olFeature", renderFeature |-> rfArg,
                   tileProjection |-> tileProjection, mapProjection |-> mapProjection,
                   heap |-> heap, outcome |-> r.outcome, feature |-> r.feature,
                   heapAfter |-> r.heap, cloned |-> r.cloned,
                   transformed |-> r.transformed, decodedFrom |-> r.decodedFrom,
                   decoded |-> r.decoded]
  /\ UNCHANGED <<proj4defs, projCache, regIdx, loaded>>

\* A clone on its own.  The boundaries of a render feature are an array of
\* indices or, for a multi-polygon, an array of such arrays (the grouping
\* getEndss answers): the heap then holds the inner arrays at the addresses
\* the outer one lists.
CloneOLRenderFeature ==
  /\ loaded
  /\ call = NoCall
  /\ \E nested \in BOOLEAN, id \in {Absent, Some("rf1")} :
     \E ends \in (IF nested THEN {<<>>, <<<<8>>>>, <<<<4>>, <<8>>>>, <<<<4, 6>>, <<8>>>>}
                  ELSE {<<>>, <<8>>, <<4, 8>>}),
        type \in (IF nested THEN {"MultiPolygon"}
                  ELSE {"LineString", "Polygon", "MultiLineString"}) :
       LET flat == [k \in 1..8 |-> k]
           heap == IF nested
                   THEN <<flat, [i \in DOMAIN ends |-> 3 + i], [layer |-> "l1"]>> \o ends
                   ELSE <<flat, ends, [layer |-> "l1"]>>
           olRenderFeature == [type |-> type, flatCoordinates |-> 1, ends |-> 2,
                               properties |-> 3, id |-> id]
           c == cloneOLRenderFeature(heap, olRenderFeature)
       IN call' = [op |-> "cloneOLRenderFeature", renderFeature |-> olRenderFeature,
                   nested |-> nested, heap |-> heap, heapAfter |-> c.heap,
                   clone |-> c.feature]
  /\ UNCHANGED <<proj4defs, projCache, regIdx, loaded>>

(***************************************************************************)
(* Utilities that resolve a CRS code: getFeaturesExtent, transformExtent   *)
(* and getWMTSScale.                                                       *)
(***************************************************************************)
\* Exact order of two decimals.
RECURSIVE DigitsLess(_, _)
DigitsLess(f, g) ==
  IF g = <<>> THEN FALSE
  ELSE IF f = <<>> THEN TRUE
  ELSE IF f[1] # g[1] THEN f[1] < g[1]
  ELSE DigitsLess(Tail(f), Tail(g))

MagLess(a, b) == a.i < b.i \/ (a.i = b.i /\ DigitsLess(a.f, b.f))
IsZero(a) == a.i = 0 /\ a.f = <<>>

DecLess(a, b) ==
  IF IsZero(a) /\ IsZero(b) THEN FALSE
  ELSE IF a.s # b.s THEN a.s < b.s
  ELSE IF a.s = 1 THEN MagLess(a, b) ELSE MagLess(b, a)

DecLeq(a, b) == ~DecLess(b, a)

\* Projection.getMetersPerUnit(): metersPerUnit_ || METERS_PER_UNIT[units_]
getMetersPerUnit(projection) ==
  IF projection.metersPerUnit # Absent THEN projection.metersPerUnit
  ELSE IF projection.units = "m" THEN Some(D(1))
  ELSE Absent

\* A number base + k * (meter / metersPerUnit), kept as this term; a plain
\* integer has k = 0.
Plain(v) == [base |-> v, k |-> 0, meter |-> 0, metersPerUnit |-> Absent]

\* getUnitsPerMeter(projectionCode, meter): the quotient meter / metersPerUnit
getUnitsPerMeter(cache, projectionCode, meter) ==
  LET projection == getProj(cache, projectionCode) IN
  IF projection = Absent THEN [ok |-> FALSE, meter |-> meter, metersPerUnit |-> Absent]
  ELSE [ok |-> TRUE, meter |-> meter, metersPerUnit |-> getMetersPerUnit(projection[1])]

Min(a, b) == IF a < b THEN a ELSE b
Max(a, b) == IF a > b THEN a ELSE b

\* Geometry.getExtent(): the bounding box of the coordinates.
RECURSIVE BoundingBox(_, _, _)
BoundingBox(coordinates, i, box) ==
  IF i > Len(coordinates) THEN box
  ELSE BoundingBox(coordinates, i + 1,
                   <<Min(box[1], coordinates[i][1]), Min(box[2], coordinates[i][2]),
                     Max(box[3], coordinates[i][1]), Max(box[4], coordinates[i][2])>>)

getExtent(geometry) ==
  LET cs == IF geometry.type = "Point" THEN <<geometry.coordinates>> ELSE geometry.coordinates
  IN BoundingBox(cs, 2, <<cs[1][1], cs[1][2], cs[1][1], cs[1][2]>>)

\* An extend that keeps the first extent's upper bounds.
extendLowerOnly(extent1, extent2) ==
  <<Min(extent1[1], extent2[1]), Min(extent1[2], extent2[2]), extent1[3], extent1[4]>>

\* ol/extent extend(extent1, extent2)
extend(extent1, extent2) ==
  <<Min(extent1[1], extent2[1]), Min(extent1[2], extent2[2]),
    Max(extent1[3], extent2[3]), Max(extent1[4], extent2[4])>>

\* extents.reduce((ext1, ext2) => extend(ext1, ext2)), from element i on
RECURSIVE Reduce(_, _, _)
Reduce(extents, i, acc) ==
  IF i > Len(extents) THEN acc ELSE Reduce(extents, i + 1, extend(acc, extents[i]))

\* A buffer that puts the larger bounds first.
PointExtentSwapped(coordX, coordY, units) ==
  LET T(base, k) == [base |-> base, k |-> k, meter |-> units.meter,
                     metersPerUnit |-> units.metersPerUnit]
  IN <<T(coordX, 1), T(coordY, 1), T(coordX, -1), T(coordY, -1)>>

\* A buffer of one tenth of the units.
PointExtentTenth(coordX, coordY, units) ==
  LET T(base, k) == [base |-> base, k |-> k, meter |-> units.meter \div 10,
                     metersPerUnit |-> units.metersPerUnit]
  IN <<T(coordX, -1), T(coordY, -1), T(coordX, 1), T(coordY, 1)>>

\* [coordX - units, coordY - units, coordX + units, coordY + units]
PointExtent(coordX, coordY, units) ==
  LET T(base, k) == [base |-> base, k |-> k, meter |-> units.meter,
                     metersPerUnit |-> units.metersPerUnit]
  IN <<T(coordX, -1), T(coordY, -1), T(coordX, 1), T(coordY, 1)>>

\* A reduction that answers an empty list with a zero extent.
ReduceExtentsOrZero(extents) ==
  IF Len(extents) = 0 THEN Some(<<Plain(0), Plain(0), Plain(0), Plain(0)>>)
  ELSE LET e == Reduce(extents, 2, extents[1]) IN
       Some(<<Plain(e[1]), Plain(e[2]), Plain(e[3]), Plain(e[4])>>)

\* extents.length === 0 ? null : extents.reduce(...)
ReduceExtents(extents) ==
  IF Len(extents) = 0 THEN Absent
  ELSE LET e == Reduce(extents, 2, extents[1]) IN
       Some(<<Plain(e[1]), Plain(e[2]), Plain(e[3]), Plain(e[4])>>)

\* Utils.getFeaturesExtent(features, projectionCode); the reduction of the
\* one buffered extent is that extent.
getFeaturesExtent(cache, features, projectionCode) ==
  LET extents == [i \in DOMAIN features |-> getExtent(features[i])] IN
  IF Len(extents) = 1 /\ features[1].type = "Point"
  THEN LET units == getUnitsPerMeter(cache, projectionCode, 1000)
           coordX == features[1].coordinates[1]
           coordY == features[1].coordinates[2]
       IN IF ~units.ok THEN [outcome |-> "TypeError: null projection", result |-> Absent]
          ELSE [outcome |-> "ok", result |-> Some(PointExtent(coordX, coordY, units))]
  ELSE [outcome |-> "ok", result |-> ReduceExtents(extents)]

MaxCoord == 1

Geometries ==
  {[type |-> "Point", coordinates |-> <<x, y>>] : x, y \in 0..MaxCoord}
  \cup {[type |-> "LineString", coordinates |-> <<<<x, y + 3>>, <<x + 2, y>>>>] :
          x, y \in 0..MaxCoord}

ExtentCodes == {"EPSG:25830", "EPSG:4326", UnknownCode}

GetFeaturesExtent ==
  /\ loaded
  /\ call = NoCall
  /\ \E n \in 0..MaxFeatures, projectionCode \in ExtentCodes :
     \E features \in [1..n -> Geometries] :
       LET r == getFeaturesExtent(projCache, features, projectionCode) IN
       call' = [op |-> "getFeaturesExtent", features |-> features,
                code |-> projectionCode, outcome |-> r.outcome, result |-> r.result]
  /\ UNCHANGED <<proj4defs, projCache, regIdx, loaded>>

(***************************************************************************)
(* Utils.transformExtent(extent, srcProj, tgtProj).  A projection argument *)
(* is a code string, <<"code", c>>, or a projection object, <<"proj", p>>. *)
(***************************************************************************)
isString(arg) == arg[1] = "code"

\* The engine's transform between two projection objects: the one
\* registered for their codes, or the identity when there is none.
TransformXY(defs, source, destination, xy) ==
  IF source.code \in DOMAIN defs /\ destination.code \in DOMAIN defs
  THEN ProjectXY(defs[source.code], defs[destination.code], xy)
  ELSE xy

\* ol/extent applyTransform: the four corners of the extent, transformed.
Corners(defs, source, destination, x1, y1, x2, y2) ==
  <<TransformXY(defs, source, destination, <<x1, y1>>),
    TransformXY(defs, source, destination, <<x1, y2>>),
    TransformXY(defs, source, destination, <<x2, y1>>),
    TransformXY(defs, source, destination, <<x2, y2>>)>>

\* ol/extent applyTransform: the bounding box of the transformed corners.
BoxOfCorners(corners) ==
  BoundingBox(corners, 2, <<corners[1][1], corners[1][2], corners[1][1], corners[1][2]>>)

DecBox(box) == <<D(box[1]), D(box[2]), D(box[3]), D(box[4])>>

\* ol/proj transformExtent: the bounding box of the transformed corners.
olTransformExtent(defs, extent, source, destination) ==
  DecBox(BoxOfCorners(Corners(defs, source, destination, Val(extent[1]), Val(extent[2]),
                              Val(extent[3]), Val(extent[4]))))

\* A test with strict comparisons.
coversProjExtentStrictly(extent, srcProjExtent) ==
  \A i \in 1..4 : IF i <= 2 THEN DecLess(extent[i], srcProjExtent[i])
                  ELSE DecLess(srcProjExtent[i], extent[i])

\* extent.every((coord, i) => i < 2 ? coord <= srcProjExtent[i]
\*                                  : coord >= srcProjExtent[i])
coversProjExtent(extent, srcProjExtent) ==
  \A i \in 1..4 : IF i <= 2 THEN DecLeq(extent[i], srcProjExtent[i])
                  ELSE DecLeq(srcProjExtent[i], extent[i])

transformExtent(cache, defs, extent, srcProj, tgtProj) ==
  LET olSrcProj == IF isString(srcProj) THEN getProj(cache, srcProj[2]) ELSE Some(srcProj[2])
      olTgtProj == IF isString(tgtProj) THEN getProj(cache, tgtProj[2]) ELSE Some(tgtProj[2])
  IN IF olSrcProj = Absent
     THEN [outcome |-> "TypeError: null projection", result |-> Absent, same |-> FALSE]
     ELSE
     LET srcProjExtent == olSrcProj[1].extent
         sameSrcProjExtent == coversProjExtent(extent, srcProjExtent)
     IN IF olTgtProj = Absent
        THEN [outcome |-> "TypeError: null projection", result |-> Absent,
              same |-> sameSrcProjExtent]
        ELSE IF sameSrcProjExtent
        THEN [outcome |-> "ok", result |-> Some(olTgtProj[1].extent), same |-> TRUE]
        ELSE [outcome |-> "ok",
              result |-> Some(olTransformExtent(defs, extent, olSrcProj[1], olTgtProj[1])),
              same |-> FALSE]

\* Inputs: integer extents around the origin, and the validity extent of
\* the source itself.
MaxSpan == 1

IntegerExtents ==
  {Extent(-200 * a, -100 * a, 200 * b, 100 * b) : a, b \in 0..MaxSpan}

ForeignProjection == [code |-> "LOCAL", extent |-> Extent(0, 0, 100, 100),
                      units |-> "m", metersPerUnit |-> Absent, axisOrientation |-> Absent]

ProjArgs ==
  {<<"code", c>> : c \in {"EPSG:4326", "EPSG:25830", UnknownCode}}
  \cup {<<"proj", ForeignProjection>>}

\* Every definition of the catalogue, by its first code.
CatalogueArgs == {<<"code", projections[i].codes[1]>> : i \in DOMAIN projections}

ArgExtentOf(cache, arg) ==
  IF isString(arg)
  THEN (IF IsRegistered(cache, arg[2]) THEN {cache[arg[2]].extent} ELSE {})
  ELSE {arg[2].extent}

TransformExtent ==
  /\ loaded
  /\ call = NoCall
  /\ \E srcProj \in ProjArgs, tgtProj \in ProjArgs \cup CatalogueArgs :
     \E extent \in IntegerExtents \cup ArgExtentOf(projCache, srcProj) :
       LET r == transformExtent(projCache, proj4defs, extent, srcProj, tgtProj) IN
       call' = [op |-> "transformExtent", extent |-> extent, srcProj |-> srcProj,
                tgtProj |-> tgtProj, outcome |-> r.outcome, result |-> r.result,
                same |-> r.same]
  /\ UNCHANGED <<proj4defs, projCache, regIdx, loaded>>

(***************************************************************************)
(* Utils.getWMTSScale(map, exact), for maps whose projection has an        *)
(* integer number of meters per unit.  The scale is kept as the exact      *)
(* fraction of the numbers it is computed from.                            *)
(***************************************************************************)
\* The product of two fractions, cancelling before multiplying.
QMul(a, b) ==
  LET g1 == Gcd(Abs(a.n), b.d)
      g2 == Gcd(Abs(b.n), a.d)
  IN Q((a.n \div g1) * (b.n \div g2), (a.d \div g2) * (b.d \div g1))

\* A truncation that goes to the nearest integer instead.
TruncToNearest(q) == (2 * q.n + q.d) \div (2 * q.d)

\* Math.round: the nearest integer, halves upwards.  Math.trunc: towards 0.
Round(q) == (2 * q.n + q.d) \div (2 * q.d)
Trunc(q) == IF q.n >= 0 THEN q.n \div q.d ELSE -((-q.n) \div q.d)

QLeq(a, b) == a.n * b.d <= b.n * a.d

\* A banding that sends the scale 950000 to the band above it.
roundToBandAbove(scale) ==
  IF QLeq(QInt(1000), scale) /\ QLess(scale, QInt(950000))
    THEN QInt(Round(QDivInt(scale, 1000)) * 1000)
  ELSE IF QLeq(QInt(950000), scale)
    THEN QInt(Round(QDivInt(scale, 1000000)) * 1000000)
  ELSE QInt(Round(scale))

\* The rounding of a scale that need not be exact (part of getWMTSScale).
roundToBand(scale) ==
  IF QLeq(QInt(1000), scale) /\ QLeq(scale, QInt(950000))
    THEN QInt(Round(QDivInt(scale, 1000)) * 1000)
  ELSE IF QLeq(QInt(950000), scale)
    THEN QInt(Round(QDivInt(scale, 1000000)) * 1000000)
  ELSE QInt(Round(scale))

getWMTSScale(cache, map, exact) ==
  LET olProj == getProj(cache, map.projection.code) IN
  IF olProj = Absent THEN [outcome |-> "TypeError: null projection", result |-> Absent]
  ELSE
  LET mpu == Val(getMetersPerUnit(olProj[1])[1])
      pix == map.size[1]
      pix2 == map.viewExtent
      ang == pix2[3] - pix2[1]
      \* (((mpu * ang) / pix) * 1000) / 0.28
      scale == QMul(Q(mpu * ang, pix), Q(100000, 28))
      rounded == IF ~exact THEN roundToBand(scale) ELSE scale
  IN [outcome |-> "ok", result |-> Some(Trunc(rounded))]

\* Inputs: a viewport 100 pixels wide over views of several widths, and
\* one a thousand times wider.
MaxViewStep == 3

ViewWidths ==
  {14, 15, 27, 28, 3457, 26600, 26601} \cup {14000 * k : k \in 1..MaxViewStep}

Views == {<<100, w>> : w \in ViewWidths} \cup {<<100000, 3456768>>}

ScaleCodes == {"EPSG:25830", "EPSG:3395", UnknownCode}

GetWMTSScale ==
  /\ loaded
  /\ call = NoCall
  /\ \E code \in ScaleCodes, view \in Views, exact \in BOOLEAN :
       LET map == [projection |-> [code |-> code], size |-> <<view[1], (view[1] * 4) \div 5>>,
                   viewExtent |-> <<0, 0, view[2], (view[2] * 4) \div 5>>]
           r == getWMTSScale(projCache, map, exact)
       IN call' = [op |-> "getWMTSScale", map |-> map, exact |-> exact,
                   outcome |-> r.outcome, result |-> r.result]
  /\ UNCHANGED <<proj4defs, projCache, regIdx, loaded>>

(***************************************************************************)
(* The centroid of a geometry: Utils.getCentroid and                       *)
(* Utils.getCentroidCoordinate.                                            *)
(*                                                                         *)
(* A geometry of ol/geom keeps its coordinates flat, with a stride and the *)
(* end offsets of its parts; its accessors build nested arrays and member  *)
(* geometries from them.                                                   *)
(***************************************************************************)
RECURSIVE Flatten(_)
Flatten(s) == IF s = <<>> THEN <<>> ELSE Head(s) \o Flatten(Tail(s))

\* The stride the constructor derives from the first coordinate (XY when
\* there is none).
StrideOf(coordinates) == IF coordinates = <<>> THEN 2 ELSE Len(coordinates[1])

\* deflateCoordinatesArray: the end offset of every part.
RECURSIVE EndsOf(_, _, _)
EndsOf(parts, i, offset) ==
  IF i > Len(parts) THEN <<>>
  ELSE LET end == offset + Len(Flatten(parts[i]))
       IN <<end>> \o EndsOf(parts, i + 1, end)

SimpleGeometry(type, flatCoordinates, stride, ends) ==
  [class |-> "Geometry", type |-> type, flatCoordinates |-> flatCoordinates,
   stride |-> stride, ends |-> ends, geometries |-> <<>>]

\* new Point(c), new LineString(cs), new LinearRing(cs), new MultiPoint(cs)
newPoint(coordinates) == SimpleGeometry("Point", coordinates, Len(coordinates), <<>>)
newLineString(coordinates) ==
  SimpleGeometry("LineString", Flatten(coordinates), StrideOf(coordinates), <<>>)
newLinearRing(coordinates) ==
  SimpleGeometry("LinearRing", Flatten(coordinates), StrideOf(coordinates), <<>>)
newMultiPoint(coordinates) ==
  SimpleGeometry("MultiPoint", Flatten(coordinates), StrideOf(coordinates), <<>>)

\* new Polygon(rings), new MultiLineString(lines)
newPolygon(rings) ==
  SimpleGeometry("Polygon", Flatten([i \in DOMAIN rings |-> Flatten(rings[i])]),
                 StrideOf(Flatten(rings)), EndsOf(rings, 1, 0))
newMultiLineString(lines) ==
  SimpleGeometry("MultiLineString", Flatten([i \in DOMAIN lines |-> Flatten(lines[i])]),
                 StrideOf(Flatten(lines)), EndsOf(lines, 1, 0))

\* new MultiPolygon(polygons): `ends` holds, per polygon, the end offsets
\* of its rings.
RECURSIVE EndssOf(_, _, _)
EndssOf(polygons, i, offset) ==
  IF i > Len(polygons) THEN <<>>
  ELSE LET ends == EndsOf(polygons[i], 1, offset)
           last == IF ends = <<>> THEN offset ELSE ends[Len(ends)]
       IN <<ends>> \o EndssOf(polygons, i + 1, last)

newMultiPolygon(polygons) ==
  SimpleGeometry("MultiPolygon",
                 Flatten([i \in DOMAIN polygons |->
                            Flatten([j \in DOMAIN polygons[i] |-> Flatten(polygons[i][j])])]),
                 StrideOf(Flatten(Flatten(polygons))), EndssOf(polygons, 1, 0))

\* new Circle(center, radius): the centre, then the point at the radius.
newCircle(center, radius) ==
  SimpleGeometry("Circle", center \o <<center[1] + radius, center[2]>>, Len(center), <<>>)

\* new GeometryCollection(geometries)
newGeometryCollection(geometries) ==
  [class |-> "Geometry", type |-> "GeometryCollection", flatCoordinates |-> <<>>,
   stride |-> 2, ends |-> <<>>, geometries |-> geometries]

\* A render feature (ol/render/Feature), which is no ol/geom geometry.
newRenderFeature(type, flatCoordinates) ==
  [class |-> "RenderFeature", type |-> type, flatCoordinates |-> flatCoordinates,
   stride |-> 2, ends |-> <<>>, geometries |-> <<>>]

\* inflateCoordinates(flat, offset, end, stride)
inflateCoordinates(flatCoordinates, offset, end, stride) ==
  [k \in 1..((end - offset) \div stride) |->
     SubSeq(flatCoordinates, offset + (k - 1) * stride + 1, offset + k * stride)]

\* Point.getCoordinates, LineString.getCoordinates, Circle.getCenter
getCoordinates(geometry) ==
  IF geometry.type = "Point" THEN geometry.flatCoordinates
  ELSE inflateCoordinates(geometry.flatCoordinates, 0, Len(geometry.flatCoordinates),
                          geometry.stride)

getCenter(geometry) == SubSeq(geometry.flatCoordinates, 1, geometry.stride)

\* MultiPoint.getPoints, MultiLineString.getLineStrings
getPoints(geometry) ==
  [k \in 1..(Len(geometry.flatCoordinates) \div geometry.stride) |->
     SimpleGeometry("Point",
                    SubSeq(geometry.flatCoordinates, (k - 1) * geometry.stride + 1,
                           k * geometry.stride),
                    geometry.stride, <<>>)]

getLineStrings(geometry) ==
  [k \in DOMAIN geometry.ends |->
     SimpleGeometry("LineString",
                    SubSeq(geometry.flatCoordinates,
                           (IF k = 1 THEN 0 ELSE geometry.ends[k - 1]) + 1, geometry.ends[k]),
                    geometry.stride, <<>>)]

\* Polygon.getFlatInteriorPoint: a point inside the polygon, with the
\* length of the segment it lies on as third ordinate.  The construction
\* is the engine's; each ordinate is kept as the term it is computed from.
getFlatInteriorPoint(flatCoordinates, ends) ==
  [o \in 1..3 |-> [interiorPointOf |-> flatCoordinates, ends |-> ends, ordinate |-> o]]

\* Polygon.getInteriorPoint: a Point in layout XYM
getInteriorPoint(geometry) ==
  SimpleGeometry("Point", getFlatInteriorPoint(geometry.flatCoordinates, geometry.ends),
                 3, <<>>)

\* The flat coordinates and the ring ends of polygon k of a MultiPolygon,
\* counted from the start of that polygon.
PolygonStart(endss, k) ==
  IF k = 1 THEN 0
  ELSE IF endss[k - 1] = <<>> THEN 0 ELSE endss[k - 1][Len(endss[k - 1])]

PolygonFlat(geometry, k) ==
  LET ends == geometry.ends[k]
      start == PolygonStart(geometry.ends, k)
  IN SubSeq(geometry.flatCoordinates, start + 1,
            IF ends = <<>> THEN start ELSE ends[Len(ends)])

PolygonEnds(geometry, k) ==
  [j \in DOMAIN geometry.ends[k] |-> geometry.ends[k][j] - PolygonStart(geometry.ends, k)]

\* MultiPolygon.getInteriorPoints: a MultiPoint in layout XYM with one
\* interior point per polygon.
getInteriorPoints(geometry) ==
  SimpleGeometry("MultiPoint",
                 Flatten([k \in DOMAIN geometry.ends |->
                            getFlatInteriorPoint(PolygonFlat(geometry, k),
                                                 PolygonEnds(geometry, k))]),
                 3, <<>>)

\* GeometryCollection.getGeometries: clones of the members.
getGeometries(geometry) == geometry.geometries

\* array[idx] of JavaScript: undefined (Absent) past the end.
At(array, idx) == IF idx + 1 \in DOMAIN array THEN Some(array[idx + 1]) ELSE Absent

\* What a centroid call hands back: a coordinate, null, undefined, the
\* geometry object itself, or a TypeError raised on the way.
Coordinate(c) == [kind |-> "coordinate", value |-> c]
NullCentroid == [kind |-> "null", value |-> <<>>]
UndefinedCentroid == [kind |-> "undefined", value |-> <<>>]
CentroidTypeError == [kind |-> "TypeError", value |-> <<>>]

\* A median taken just before the midpoint of an even count.
MedianBeforeMidpoint(coordinates) ==
  LET medianIdx == (Len(coordinates) - 1) \div 2
      c == At(coordinates, medianIdx)
  IN IF c = Absent THEN UndefinedCentroid ELSE Coordinate(c[1])

\* centroid = coordinates[medianIdx]
Median(coordinates) ==
  LET medianIdx == Len(coordinates) \div 2
      c == At(coordinates, medianIdx)
  IN IF c = Absent THEN UndefinedCentroid ELSE Coordinate(c[1])

\* Utils.getCentroid(geometry); the argument is Absent for null/undefined.
RECURSIVE getCentroid(_)
getCentroid(geometry) ==
  IF isNullOrEmpty(geometry) THEN NullCentroid
  ELSE IF geometry[1].class = "RenderFeature"
  THEN [kind |-> "geometry", value |-> geometry[1]]
  ELSE LET g == geometry[1] IN
    CASE g.type = "Point" -> Coordinate(getCoordinates(g))
      [] g.type \in {"LineString", "LinearRing"} -> Median(getCoordinates(g))
      [] g.type = "Polygon" -> getCentroid(Some(getInteriorPoint(g)))
      [] g.type = "MultiPoint" ->
           LET points == getPoints(g)
               medianIdx == Len(points) \div 2
           IN getCentroid(At(points, medianIdx))
      [] g.type = "MultiLineString" ->
           LET lineStrings == getLineStrings(g)
               medianIdx == Len(lineStrings) \div 2
           IN getCentroid(At(lineStrings, medianIdx))
      [] g.type = "MultiPolygon" -> getCentroid(Some(getInteriorPoints(g)))
      [] g.type = "Circle" -> Coordinate(getCenter(g))
      [] OTHER -> NullCentroid

\* Utils.getCentroidCoordinate(geometry): geometry.getType() on null or
\* undefined raises a TypeError; a type without a branch leaves centroid
\* undefined.  A render feature has getType but none of the accessors the
\* branches call, so a branch taken for it raises a TypeError too.
RECURSIVE getCentroidCoordinate(_)
getCentroidCoordinate(geometry) ==
  IF geometry = Absent THEN CentroidTypeError
  ELSE LET g == geometry[1] IN
    IF g.class = "RenderFeature"
    THEN (IF g.type \in KnownTypes THEN CentroidTypeError ELSE UndefinedCentroid)
    ELSE IF g.type = "Point" THEN Coordinate(getCoordinates(g))
    ELSE IF g.type = "LineString" THEN Median(getCoordinates(g))
    ELSE IF g.type = "LinearRing" THEN Median(getCoordinates(g))
    ELSE IF g.type = "Polygon" THEN getCentroidCoordinate(Some(getInteriorPoint(g)))
    ELSE IF g.type = "MultiPoint"
    THEN LET points == getPoints(g)
             medianIdx == Len(points) \div 2
         IN getCentroidCoordinate(At(points, medianIdx))
    ELSE IF g.type = "MultiLineString"
    THEN LET lineStrings == getLineStrings(g)
             medianIdx == Len(lineStrings) \div 2
         IN getCentroidCoordinate(At(lineStrings, medianIdx))
    ELSE IF g.type = "MultiPolygon" THEN getCentroidCoordinate(Some(getInteriorPoints(g)))
    ELSE IF g.type = "Circle" THEN Coordinate(getCenter(g))
    ELSE IF g.type = "GeometryCollection"
    THEN LET geometries == getGeometries(g)
             medianIdx == Len(geometries) \div 2
         IN getCentroidCoordinate(At(geometries, medianIdx))
    ELSE UndefinedCentroid

\* Inputs: what each geometry is constructed from.
MaxLineLen == 5
MaxMembers == 3

Lines ==
  {[i \in 1..n |-> <<i - 1 + dx, i - 1>>] : n \in 0..MaxLineLen, dx \in 0..1}

Ring(x, y) == <<<<x, y>>, <<x + 4, y>>, <<x + 4, y + 2>>, <<x, y + 2>>, <<x, y>>>>

Source(type, arg) == [type |-> type, arg |-> arg]

MemberSources ==
  {Source("Point", <<7, 8>>),
   Source("LineString", <<<<0, 0>>, <<1, 1>>, <<2, 2>>>>),
   Source("MultiPoint", <<<<5, 5>>, <<6, 6>>>>),
   Source("Polygon", <<Ring(0, 0)>>),
   Source("Circle", <<<<3, 4>>, 2>>)}

CollectionSources ==
  {Source("GeometryCollection", members) :
     members \in UNION {[1..n -> MemberSources] : n \in 0..MaxMembers}}

CentroidSources ==
  {Source("Point", <<x, y>>) : x, y \in 0..1}
  \cup {Source(type, line) : type \in {"LineString", "LinearRing", "MultiPoint"},
                             line \in Lines}
  \cup {Source("Polygon", rings) : rings \in {<<Ring(0, 0)>>, <<Ring(0, 0), Ring(1, 1)>>}}
  \cup {Source("MultiLineString", lines) :
          lines \in UNION {[1..n -> {<<<<0, 0>>, <<1, 1>>>>, <<<<2, 0>>, <<3, 1>>, <<4, 2>>>>}] :
                             n \in 0..2}}
  \cup {Source("MultiPolygon", polygons) :
          polygons \in UNION {[1..n -> {<<Ring(0, 0)>>, <<Ring(10, 10), Ring(11, 11)>>}] :
                                n \in 1..2}}
  \cup {Source("Circle", <<<<x, 4>>, 2>>) : x \in 0..1}
  \cup {Source("RenderFeature", <<1, 2>>)}
  \cup CollectionSources
  \cup {Source("GeometryCollection", <<c>>) :
          c \in {Source("GeometryCollection", <<Source("Point", <<7, 8>>)>>)}}

\* The geometry a caller constructs from a source.
RECURSIVE Build(_)
Build(source) ==
  CASE source.type = "Point" -> newPoint(source.arg)
    [] source.type = "LineString" -> newLineString(source.arg)
    [] source.type = "LinearRing" -> newLinearRing(source.arg)
    [] source.type = "MultiPoint" -> newMultiPoint(source.arg)
    [] source.type = "Polygon" -> newPolygon(source.arg)
    [] source.type = "MultiLineString" -> newMultiLineString(source.arg)
    [] source.type = "MultiPolygon" -> newMultiPolygon(source.arg)
    [] source.type = "Circle" -> newCircle(source.arg[1], source.arg[2])
    [] source.type = "RenderFeature" -> newRenderFeature("Point", source.arg)
    [] source.type = "GeometryCollection" ->
         newGeometryCollection([i \in DOMAIN source.arg |-> Build(source.arg[i])])

CentroidArgs == {Absent} \cup {Some(s) : s \in CentroidSources}

GeometryOf(arg) == IF arg = Absent THEN Absent ELSE Some(Build(arg[1]))

GetCentroid ==
  /\ loaded
  /\ call = NoCall
  /\ \E arg \in CentroidArgs :
       call' = [op |-> "getCentroid", source |-> arg,
                result |-> getCentroid(GeometryOf(arg))]
  /\ UNCHANGED <<proj4defs, projCache, regIdx, loaded>>

GetCentroidCoordinate ==
  /\ loaded
  /\ call = NoCall
  /\ \E arg \in CentroidArgs :
       call' = [op |-> "getCentroidCoordinate", source |-> arg,
                result |-> getCentroidCoordinate(GeometryOf(arg))]
  /\ UNCHANGED <<proj4defs, projCache, regIdx, loaded>>

(***************************************************************************)
(* Properties.                                                             *)
(***************************************************************************)

\* C1: once the whole catalogue is registered, any two codes of one
\* definition resolve to the same extent, unit and meters-per-unit, and to
\* the same transform-definition string.
AliasesResolveAlike ==
  loaded =>
    \A i \in DOMAIN projections :
      \A a, b \in Range(projections[i].codes) :
        /\ projCache[a].extent = projCache[b].extent
        /\ projCache[a].units = projCache[b].units
        /\ projCache[a].metersPerUnit = projCache[b].metersPerUnit
        /\ proj4defs[a] = proj4defs[b]

\* C2: geojsonTo4326 leaves every leaf coordinate array of its input as it
\* was before the call.
InputNeverMutated ==
  call.op = "geojsonTo4326" => call.heapAfter = call.heap

AllSupplied ==
  /\ call.op = "generateResolutions"
  /\ call.extent # Absent /\ call.minZoom # Absent /\ call.maxZoom # Absent

AllAbsent ==
  /\ call.op = "generateResolutions"
  /\ call.extent = Absent /\ call.minZoom = Absent /\ call.maxZoom = Absent

\* q * k = w, for a fraction q and integers k, w
TimesIs(q, k, w) == q.n * k = w * q.d

\* C4: with extent, minZoom and maxZoom supplied, generateResolutions
\* returns maxZoom - minZoom numbers, the i-th (from 0) being
\* (width(extent) / 256) / 2^i.
AllSuppliedLadder ==
  AllSupplied =>
    /\ call.outcome = "ok"
    /\ Len(call.result) = call.maxZoom[1] - call.minZoom[1]
    /\ \A i \in DOMAIN call.result :
         TimesIs(call.result[i], 256 * Pow2(i - 1), getWidth(call.extent))

\* C5: with extent, minZoom and maxZoom absent, generateResolutions returns
\* exactly 20 resolutions, the first being width(projection extent) / 256.
DefaultLadder ==
  AllAbsent =>
    /\ call.outcome = "ok"
    /\ Len(call.result) = 20
    /\ TimesIs(call.result[1], 256, getWidth(call.projection.extent))

DefaultLadderWitness ==
  /\ AllAbsent
  /\ call.projection.code = "GRID"
  /\ Len(call.result) = 20
  /\ call.result[1] = QInt(10)

Decoding == call.op = "olRenderFeature2olFeature" /\ call.renderFeature # Absent

\* The coordinate pairs of a flat array, and its split at the ends.
Pairs(s) == [k \in 1..(Len(s) \div 2) |-> <<s[2 * k - 1], s[2 * k]>>]

SplitByEnds(flat, ends) ==
  [j \in 1..Len(ends) |->
     Pairs(SubSeq(flat, (IF j = 1 THEN 0 ELSE ends[j - 1]) + 1, ends[j]))]

EndsInRange(flat, ends) == \A j \in DOMAIN ends : ends[j] <= Len(flat)

\* C3: a Polygon render geometry with ends e1..ek decodes into exactly k
\* rings, ring j holding the pairs of buffer[e(j-1) .. ej) (e0 = 0).
PolygonRingsFollowEnds ==
  (/\ Decoding
   /\ call.renderFeature[1].type = "Polygon"
   /\ call.decodedFrom # 0
   /\ call.heap[2] # <<>>
   /\ EndsInRange(call.heap[1], call.heap[2]))
  => /\ call.outcome = "ok"
     /\ call.decoded.type = "Polygon"
     /\ call.decoded.coordinates = SplitByEnds(call.heapAfter[call.decodedFrom], call.heap[2])

\* C6: when the tile CRS or the map CRS is absent, the geometry is decoded
\* from the input's own buffer: no clone is made and no transform applied.
DirectWhenCrsAbsent ==
  (Decoding /\ (call.tileProjection = Absent \/ call.mapProjection = Absent))
  => /\ ~call.cloned
     /\ ~call.transformed
     /\ call.decodedFrom = call.renderFeature[1].flatCoordinates

\* C7: when both CRSs are present and the type tag is known, the clone is
\* reprojected and decoded: the feature returned carries a geometry, and
\* the caller's coordinate buffer is as it was.
CloneDecodedWhenBothPresent ==
  (/\ Decoding
   /\ call.tileProjection # Absent /\ call.mapProjection # Absent
   /\ call.renderFeature[1].type \in KnownTypes)
  => /\ call.outcome = "ok"
     /\ call.cloned /\ call.transformed
     /\ call.feature # Absent
     /\ call.feature[1].geometry.type \notin {"null", "undefined"}
     /\ call.heapAfter[1] = call.heap[1]

\* C8: a type tag outside the nine known ones raises no error: the decoder
\* returns null and the feature returned has no geometry.
UnknownTagDecodesToAbsent ==
  (Decoding /\ call.renderFeature[1].type \notin KnownTypes)
  => /\ call.outcome = "ok"
     /\ call.feature # Absent
     /\ call.feature[1].geometry.type \in {"null", "undefined"}
     /\ (call.decodedFrom # 0 => call.decoded = NullGeometry)

UnknownTagWitness ==
  /\ Decoding
  /\ call.renderFeature[1].type \notin KnownTypes
  /\ call.cloned
  /\ call.decodedFrom # 0
  /\ call.heap[1] # <<>>
  /\ call.feature # Absent
  /\ call.feature[1].geometry = NullGeometry

\* C9: ends that point past the coordinate buffer make the decoding fail
\* with MalformedGeometryEncoding, and no geometry is returned.
MalformedEndsRejected ==
  (/\ Decoding
   /\ call.decodedFrom # 0
   /\ ~EndsInRange(call.heap[1], call.heap[2]))
  => /\ call.outcome = "MalformedGeometryEncoding"
     /\ call.feature = Absent

\* The failure of a lookup of a code that is not registered: ol/proj get
\* answers null and the caller dereferences it.
UnknownProjection == "TypeError: null projection"

RECURSIVE LeafCount(_, _)
RECURSIVE LeafSum(_, _, _)
LeafCount(coordinates, depth) ==
  IF depth < 0 THEN 0 ELSE IF depth = 0 THEN 1 ELSE LeafSum(coordinates, depth, 1)
LeafSum(coordinates, depth, i) ==
  IF i > Len(coordinates) THEN 0
  ELSE LeafCount(coordinates[i], depth - 1) + LeafSum(coordinates, depth, i + 1)

HasLeaf(features) ==
  \E k \in DOMAIN features :
    LeafCount(features[k].geometry.coordinates, Depth(features[k].geometry.type)) > 0

ResolvesUnknown(arg) == isString(arg) /\ ~IsRegistered(projCache, arg[2])

\* C10: an operation that resolves a code that is not registered fails with
\* the unknown-projection error and yields no result.
UnknownCodeFails ==
  /\ (/\ call.op = "getFeaturesExtent"
      /\ Len(call.features) = 1 /\ call.features[1].type = "Point"
      /\ ~IsRegistered(projCache, call.code))
     => (call.outcome = UnknownProjection /\ call.result = Absent)
  /\ (/\ call.op = "transformExtent"
      /\ (ResolvesUnknown(call.srcProj) \/ ResolvesUnknown(call.tgtProj)))
     => (call.outcome = UnknownProjection /\ call.result = Absent)
  /\ (/\ call.op = "geojsonTo4326"
      /\ ~IsRegistered(projCache, call.code)
      /\ HasLeaf(call.features))
     => (call.outcome = UnknownProjection /\ call.result = <<>>
         /\ call.heapAfter = call.heap)
  /\ (call.op = "getWMTSScale" /\ ~IsRegistered(projCache, call.map.projection.code))
     => (call.outcome = UnknownProjection /\ call.result = Absent)

UnknownCodeWitness ==
  /\ call.op = "transformExtent"
  /\ call.srcProj = <<"code", "EPSG:4326">>
  /\ call.tgtProj = <<"code", UnknownCode>>
  /\ ~call.same
  /\ call.outcome = UnknownProjection
  /\ call.result = Absent

(***************************************************************************)
(* Properties of the centroid operations.                                  *)
(***************************************************************************)
IsCentroidCall == call.op \in {"getCentroid", "getCentroidCoordinate"}

CentroidOf(op, geometry) ==
  IF op = "getCentroid" THEN getCentroid(geometry) ELSE getCentroidCoordinate(geometry)

\* C11: the centroid of a geometry that is not absent is a coordinate,
\* never null, undefined or a geometry object.
CentroidAbsentOnlyForAbsent ==
  (IsCentroidCall /\ call.source # Absent) => call.result.kind = "coordinate"

\* C12: the centroid of a GeometryCollection with n >= 1 members is the
\* centroid of the member at index floor(n/2), at both entry points.
CollectionCentroidIsMedianMember ==
  (/\ IsCentroidCall
   /\ call.source # Absent
   /\ call.source[1].type = "GeometryCollection"
   /\ Len(call.source[1].arg) >= 1)
  => LET members == call.source[1].arg
         member == members[Len(members) \div 2 + 1]
     IN call.result = CentroidOf(call.op, Some(Build(member)))

IsLineCall ==
  /\ IsCentroidCall
  /\ call.source # Absent
  /\ call.source[1].type \in {"LineString", "LinearRing"}
  /\ Len(call.source[1].arg) >= 1

\* C13: the centroid of a LineString or LinearRing of n >= 1 coordinates
\* is the coordinate at index floor(n/2) of the coordinates it was built
\* from.
LineCentroidIsMedian ==
  IsLineCall
  => LET coordinates == call.source[1].arg
     IN /\ call.result.kind = "coordinate"
        /\ call.result.value = coordinates[Len(coordinates) \div 2 + 1]

LineCentroidWitness ==
  /\ call.op = "getCentroid"
  /\ call.source = Some(Source("LineString", [i \in 1..5 |-> <<i - 1, i - 1>>]))
  /\ call.result = Coordinate(<<2, 2>>)

(***************************************************************************)
(* Properties of getFeaturesExtent and transformExtent.                    *)
(***************************************************************************)
IsExtentCall == call.op = "getFeaturesExtent"

IsSinglePoint ==
  IsExtentCall /\ Len(call.features) = 1 /\ call.features[1].type = "Point"

\* The meters per unit the catalogue gives the code: the declared number,
\* or 1 for a definition in meters that declares none.
CatalogueMetersPerUnit(code) ==
  LET p == CHOOSE q \in Range(projections) : code \in Range(q.codes)
  IN IF p.metersPerUnit # Absent THEN p.metersPerUnit
     ELSE IF p.units = "m" THEN Some(D(1)) ELSE Absent

\* x + k * (1000 / m), kept as the numbers it is computed from
Buffered(x, k, m) == [base |-> x, k |-> k, meter |-> 1000, metersPerUnit |-> m]

\* The number a term stands for when its meters per unit are 1.
InMeters(t) == t.base + t.k * t.meter

\* C14: the extent of exactly one Point (x, y) in a CRS with m meters per
\* unit is [x - 1000/m, y - 1000/m, x + 1000/m, y + 1000/m]; with m = 1
\* that is [x - 1000, y - 1000, x + 1000, y + 1000].
SinglePointBuffered ==
  (IsSinglePoint /\ IsRegistered(projCache, call.code))
  => LET x == call.features[1].coordinates[1]
         y == call.features[1].coordinates[2]
         m == CatalogueMetersPerUnit(call.code)
     IN /\ call.outcome = "ok"
        /\ call.result = Some(<<Buffered(x, -1, m), Buffered(y, -1, m),
                                Buffered(x, 1, m), Buffered(y, 1, m)>>)
        /\ m = Some(D(1))
           => [i \in 1..4 |-> InMeters(call.result[1][i])]
              = <<x - 1000, y - 1000, x + 1000, y + 1000>>

SinglePointWitness ==
  /\ IsSinglePoint
  /\ call.features[1].coordinates = <<0, 0>>
  /\ call.code = "EPSG:25830"
  /\ [i \in 1..4 |-> InMeters(call.result[1][i])] = <<-1000, -1000, 1000, 1000>>

\* The coordinates of a feature, and the ordinates o of all the features.
CoordinatesOf(feature) ==
  IF feature.type = "Point" THEN {feature.coordinates} ELSE Range(feature.coordinates)

Ordinates(features, o) ==
  {c[o] : c \in UNION {CoordinatesOf(features[i]) : i \in DOMAIN features}}

Least(S) == CHOOSE v \in S : \A w \in S : v <= w
Greatest(S) == CHOOSE v \in S : \A w \in S : v >= w

IsUnionCall ==
  /\ IsExtentCall
  /\ \/ Len(call.features) >= 2
     \/ (Len(call.features) = 1 /\ call.features[1].type # "Point")

\* C15: the extent of two or more features, or of one that is no Point,
\* is the least and greatest ordinates over all the features, whatever
\* their order, with no buffer.
UnionOfExtents ==
  IsUnionCall
  => /\ call.outcome = "ok"
     /\ call.result = Some(<<Plain(Least(Ordinates(call.features, 1))),
                             Plain(Least(Ordinates(call.features, 2))),
                             Plain(Greatest(Ordinates(call.features, 1))),
                             Plain(Greatest(Ordinates(call.features, 2)))>>)

UnionOfExtentsWitness ==
  /\ IsUnionCall
  /\ Len(call.features) = 2
  /\ call.features[1] = [type |-> "LineString", coordinates |-> <<<<0, 3>>, <<2, 0>>>>]
  /\ call.features[2] = [type |-> "Point", coordinates |-> <<1, 1>>]
  /\ call.result = Some(<<Plain(0), Plain(0), Plain(2), Plain(3)>>)

\* C16: the extent of no features is absent, with no error, whether or
\* not the code is registered.
EmptyFeaturesGiveAbsent ==
  (IsExtentCall /\ call.features = <<>>)
  => (call.outcome = "ok" /\ call.result = Absent)

EmptyFeaturesWitness ==
  /\ IsExtentCall
  /\ call.features = <<>>
  /\ call.code = UnknownCode
  /\ call.outcome = "ok"
  /\ call.result = Absent

\* a <= b for two numbers base + k * (meter / metersPerUnit): true when the
\* bases are in order and a's multiple of the quotient is no larger,
\* the quotient being positive wherever it counts.
TermLeq(a, b) ==
  /\ a.base <= b.base
  /\ \/ a.k = b.k
     \/ /\ a.k < b.k
        /\ a.meter > 0
        /\ a.metersPerUnit # Absent
        /\ DecLess(D(0), a.metersPerUnit[1])

IsTransformCall == call.op = "transformExtent"

\* C17: an extent returned by getFeaturesExtent or transformExtent has
\* minX <= maxX and minY <= maxY.
ExtentsAreOrdered ==
  /\ (IsExtentCall /\ call.result # Absent)
     => (/\ TermLeq(call.result[1][1], call.result[1][3])
         /\ TermLeq(call.result[1][2], call.result[1][4]))
  /\ (IsTransformCall /\ call.result # Absent)
     => (/\ DecLeq(call.result[1][1], call.result[1][3])
         /\ DecLeq(call.result[1][2], call.result[1][4]))

ExtentsAreOrderedWitness ==
  /\ IsSinglePoint
  /\ call.code = "EPSG:4326"
  /\ call.result # Absent
  /\ call.result[1][1].k = -1
  /\ call.result[1][3].k = 1

\* The projection an argument of transformExtent stands for.
Resolved(arg) == IF isString(arg) THEN projCache[arg[2]] ELSE arg[2]

BothResolve ==
  /\ IsTransformCall
  /\ isString(call.srcProj) => IsRegistered(projCache, call.srcProj[2])
  /\ isString(call.tgtProj) => IsRegistered(projCache, call.tgtProj[2])

\* extent[0] <= src[0], extent[1] <= src[1], extent[2] >= src[2] and
\* extent[3] >= src[3]
Covers(extent, src) ==
  /\ ~DecLess(src[1], extent[1])
  /\ ~DecLess(src[2], extent[2])
  /\ ~DecLess(extent[3], src[3])
  /\ ~DecLess(extent[4], src[4])

\* The images of the four corners of an extent.
CornerImages(extent, source, destination) ==
  {TransformXY(proj4defs, source, destination, <<Val(extent[i]), Val(extent[j])>>) :
     i \in {1, 3}, j \in {2, 4}}

IsScaleCall ==
  call.op = "getWMTSScale" /\ IsRegistered(projCache, call.map.projection.code)

\* (((mpu * ang) / pix) * 1000) / 0.28 for the map of the call
RawScale ==
  LET mpu == Val(CatalogueMetersPerUnit(call.map.projection.code)[1])
      ang == call.map.viewExtent[3] - call.map.viewExtent[1]
  IN QMul(Q(mpu * ang, call.map.size[1]), Q(100000, 28))

\* r is a multiple of step, and no multiple of step is nearer to raw.
Nearest(r, raw, step) ==
  /\ r % step = 0
  /\ 2 * Abs(r * raw.d - raw.n) <= step * raw.d

\* C19: a scale that need not be exact is rounded to the nearest 1 below
\* 1000, to the nearest 1000 from 1000 to 950000 (both included) and to
\* the nearest 1000000 above 950000.
ScaleIsRoundedByBand ==
  (IsScaleCall /\ ~call.exact)
  => /\ call.outcome = "ok"
     /\ QLess(RawScale, QInt(1000)) => Nearest(call.result[1], RawScale, 1)
     /\ (QLeq(QInt(1000), RawScale) /\ QLeq(RawScale, QInt(950000)))
        => Nearest(call.result[1], RawScale, 1000)
     /\ QLess(QInt(950000), RawScale) => Nearest(call.result[1], RawScale, 1000000)

ScaleBandBoundaryWitness ==
  /\ IsScaleCall
  /\ ~call.exact
  /\ RawScale = QInt(950000)
  /\ call.result = Some(950000)

\* C20: the scale returned is an integer: the raw scale cut towards zero
\* when it must be exact, the rounded scale otherwise.
ScaleIsTruncated ==
  IsScaleCall
  => /\ call.outcome = "ok"
     /\ call.result[1] \in Int
     /\ call.exact
        => /\ call.result[1] * RawScale.d <= RawScale.n
           /\ RawScale.n < (call.result[1] + 1) * RawScale.d
     /\ ~call.exact
        => \E step \in {1, 1000, 1000000} : Nearest(call.result[1], RawScale, step)

ScaleIsTruncatedWitness ==
  /\ IsScaleCall
  /\ call.exact
  /\ call.map.size[1] = 100
  /\ call.map.viewExtent[3] = 15
  /\ call.result = Some(535)

(***************************************************************************)
(* Properties of the GeoJSON reprojector, leaf by leaf.                    *)
(***************************************************************************)
IsReprojected == call.op = "geojsonTo4326" /\ call.outcome = "ok"

\* The addresses of the leaf coordinate arrays of a payload, in order.
RECURSIVE LeafRefs(_, _)
RECURSIVE LeafRefsFrom(_, _, _)
LeafRefs(coordinates, depth) ==
  IF depth < 0 THEN <<>> ELSE IF depth = 0 THEN <<coordinates>>
  ELSE LeafRefsFrom(coordinates, depth, 1)
LeafRefsFrom(coordinates, depth, i) ==
  IF i > Len(coordinates) THEN <<>>
  ELSE LeafRefs(coordinates[i], depth - 1) \o LeafRefsFrom(coordinates, depth, i + 1)

ToEPSG4326(code, xy) == ProjectXY(proj4defs[code], proj4defs["EPSG:4326"], xy)

\* The leaf the transform makes of the leaf `old`.
LeafImage(code, old) == ToEPSG4326(code, getXY(old)) \o SubSeq(old, 3, Len(old))

LeavesIn(k) ==
  LeafRefs(call.features[k].geometry.coordinates, Depth(call.features[k].geometry.type))
LeavesOut(k) ==
  LeafRefs(call.result[k].geometry.coordinates, Depth(call.features[k].geometry.type))

\* C21: every leaf coordinate of the output of geojsonTo4326 has as many
\* ordinates as the leaf it was made from: the first two are the transform
\* of the first two of the input, and every ordinate from the third on
\* equals the input's.
LeafKeepsOrdinates ==
  IsReprojected =>
    \A k \in DOMAIN call.features :
      /\ Len(LeavesOut(k)) = Len(LeavesIn(k))
      /\ \A j \in DOMAIN LeavesIn(k) :
           /\ Len(call.heapAfter[LeavesOut(k)[j]]) = Len(call.heap[LeavesIn(k)[j]])
           /\ SubSeq(call.heapAfter[LeavesOut(k)[j]], 1, 2)
                = ToEPSG4326(call.code, SubSeq(call.heap[LeavesIn(k)[j]], 1, 2))
           /\ \A o \in 3..Len(call.heap[LeavesIn(k)[j]]) :
                call.heapAfter[LeavesOut(k)[j]][o] = call.heap[LeavesIn(k)[j]][o]

LeafKeepsOrdinatesWitness ==
  /\ IsReprojected
  /\ call.code = "EPSG:25830"
  /\ \E k \in DOMAIN call.features :
       /\ call.features[k].geometry.type = "LineString"
       /\ \E j \in DOMAIN LeavesIn(k) :
            /\ Len(call.heap[LeavesIn(k)[j]]) = 3
            /\ call.heapAfter[LeavesOut(k)[j]][3] = call.heap[LeavesIn(k)[j]][3]
            /\ call.heapAfter[LeavesOut(k)[j]][1] # call.heap[LeavesIn(k)[j]][1]

\* C22: geojsonTo4326 answers one feature per input feature, in the input's
\* order; the k-th keeps the type, the properties, the identifier and the
\* geometry type of the k-th input and differs from it in the coordinates
\* of its geometry only.
OneFeaturePerInput ==
  IsReprojected =>
    /\ Len(call.result) = Len(call.features)
    /\ \A k \in DOMAIN call.features :
         /\ DOMAIN call.result[k] = DOMAIN call.features[k]
         /\ \A field \in DOMAIN call.features[k] \ {"geometry"} :
              call.result[k][field] = call.features[k][field]
         /\ DOMAIN call.result[k].geometry = {"type", "coordinates"}
         /\ call.result[k].geometry.type = call.features[k].geometry.type

OneFeaturePerInputWitness ==
  /\ IsReprojected
  /\ Len(call.features) = 2
  /\ call.code = "EPSG:25830"
  /\ call.features[1].geometry.type = "Polygon"
  /\ call.features[2].geometry.type = "Point"
  /\ call.result[1].id = 1 /\ call.result[2].id = 2
  /\ call.result[2].properties = call.features[2].properties
  /\ call.heapAfter # call.heap

\* Two payloads of the same nesting: the same length at every level.
RECURSIVE SameShape(_, _, _)
SameShape(a, b, depth) ==
  depth <= 0 \/ (Len(a) = Len(b) /\ \A i \in DOMAIN a : SameShape(a[i], b[i], depth - 1))

\* The six geometry types the switch has a case for.
SupportedTypes ==
  {"Point", "MultiPoint", "LineString", "MultiLineString", "Polygon", "MultiPolygon"}

Supported(type) == type \in SupportedTypes

\* C23: for each of Point, MultiPoint, LineString, MultiLineString, Polygon
\* and MultiPolygon the output coordinates have the nesting of the input
\* (as many polygons, rings and points at every level), and every output
\* leaf is the transform of the input leaf at the same position.
NestingPreserved ==
  IsReprojected =>
    \A k \in DOMAIN call.features :
      Supported(call.features[k].geometry.type) =>
        /\ SameShape(call.features[k].geometry.coordinates,
                     call.result[k].geometry.coordinates,
                     Depth(call.features[k].geometry.type))
        /\ Len(LeavesOut(k)) = Len(LeavesIn(k))
        /\ \A j \in DOMAIN LeavesIn(k) :
             call.heapAfter[LeavesOut(k)[j]] = LeafImage(call.code, call.heap[LeavesIn(k)[j]])

NestingPreservedWitness ==
  /\ IsReprojected
  /\ call.code = "EPSG:25830"
  /\ \E k \in DOMAIN call.features :
       /\ call.features[k].geometry.type = "MultiPolygon"
       /\ Len(call.result[k].geometry.coordinates) = 2
       /\ Len(call.result[k].geometry.coordinates[2]) = 2
       /\ Len(call.result[k].geometry.coordinates[2][2]) = 2
       /\ Len(LeavesOut(k)) = 8

AllUnsupported(features) ==
  \A k \in DOMAIN features : ~Supported(features[k].geometry.type)

\* C24: a feature whose geometry type is none of the six is carried over
\* without an error and without a transform: the output feature has the
\* same geometry type and coordinates that are empty or the input's, no
\* leaf array is written for it, and a call given only such features
\* succeeds whatever the code.
UnsupportedCarriedOver ==
  /\ (call.op = "geojsonTo4326" /\ AllUnsupported(call.features))
       => (call.outcome = "ok" /\ call.heapAfter = call.heap)
  /\ IsReprojected =>
       \A k \in DOMAIN call.features :
         ~Supported(call.features[k].geometry.type) =>
           /\ call.result[k].geometry.type = call.features[k].geometry.type
           /\ call.result[k].geometry.coordinates
                \in {<<>>, call.features[k].geometry.coordinates}
           /\ \A a \in Range(call.features[k].geometry.coordinates) :
                call.heapAfter[a] = call.heap[a]

UnsupportedCarriedOverWitness ==
  /\ IsReprojected
  /\ call.code = UnknownCode
  /\ Len(call.features) = 1
  /\ call.features[1].geometry.type = "GeometryCollection"
  /\ Len(call.features[1].geometry.coordinates) = 2
  /\ call.result[1].geometry = [type |-> "GeometryCollection", coordinates |-> <<>>]

(***************************************************************************)
(* Properties of the identifier of a decoded feature and of the clone.     *)
(***************************************************************************)
IsDecoded ==
  /\ call.op = "olRenderFeature2olFeature"
  /\ call.outcome = "ok"
  /\ call.feature # Absent

GeneratedIds == {"mapea_feature_" \o digits : digits \in RandomDigits}

\* C25: the feature olRenderFeature2olFeature produces has the identifier
\* of the render feature when that has one, and otherwise a generated one
\* that starts with 'mapea_feature_'; its identifier is never empty.
DecodedFeatureHasId ==
  IsDecoded =>
    /\ call.renderFeature[1].id \notin {Absent, Some("")}
         => call.feature[1].id = call.renderFeature[1].id[1]
    /\ call.renderFeature[1].id \in {Absent, Some("")}
         => call.feature[1].id \in GeneratedIds
    /\ call.feature[1].id # ""

GeneratedIdWitness ==
  /\ IsDecoded
  /\ call.renderFeature[1].id = Some("")
  /\ call.renderFeature[1].type = "LineString"
  /\ call.feature[1].id = "mapea_feature_42"

\* The arrays a render feature is made of, and what they hold.
ArraysOf(heap, feature, nested) ==
  {feature.flatCoordinates, feature.ends}
    \cup (IF nested THEN Range(heap[feature.ends]) ELSE {})

ContentOf(heap, feature, nested) ==
  [flatCoordinates |-> heap[feature.flatCoordinates],
   ends |-> IF nested THEN [i \in DOMAIN heap[feature.ends] |-> heap[heap[feature.ends][i]]]
            ELSE heap[feature.ends]]

\* C26: the clone has the type and the identifier of the original, its
\* coordinate buffer and boundaries hold what the original's hold, none of
\* its arrays, at any nesting level, is an array of the original, and a
\* write to any array of the clone leaves the original's content as it was.
CloneOwnsItsArrays ==
  call.op = "cloneOLRenderFeature" =>
    /\ call.clone.type = call.renderFeature.type
    /\ call.clone.id = call.renderFeature.id
    /\ ContentOf(call.heapAfter, call.clone, call.nested)
         = ContentOf(call.heap, call.renderFeature, call.nested)
    /\ ArraysOf(call.heapAfter, call.clone, call.nested)
         \cap ArraysOf(call.heap, call.renderFeature, call.nested) = {}
    /\ \A a \in ArraysOf(call.heapAfter, call.clone, call.nested) :
         ContentOf([call.heapAfter EXCEPT ![a] = <<>>], call.renderFeature, call.nested)
           = ContentOf(call.heap, call.renderFeature, call.nested)

\* The same statement for boundaries that are one array of indices.
FlatCloneOwnsItsArrays == (call.op = "cloneOLRenderFeature" /\ call.nested) \/ CloneOwnsItsArrays

(***************************************************************************)
(* Properties of the resolution ladder.                                    *)
(***************************************************************************)
\* a = b / 2, for fractions a and b
IsHalfOf(a, b) == 2 * a.n * b.d = b.n * a.d

\* C28: the list generateResolutions returns is finite and strictly
\* decreasing from its first element: each element after the first is half
\* the one before it, and smaller than it.
LadderHalves ==
  (call.op = "generateResolutions" /\ call.outcome = "ok") =>
    \A i \in DOMAIN call.result :
      (i + 1) \in DOMAIN call.result =>
        /\ IsHalfOf(call.result[i + 1], call.result[i])
        /\ QLess(call.result[i + 1], call.result[i])

LadderHalvesWitness ==
  /\ call.op = "generateResolutions" /\ call.outcome = "ok"
  /\ call.projection.code = "EPSG:4326"
  /\ Len(call.result) = 20
  /\ call.result[1] = Q(45, 32)
  /\ call.result[2] = Q(45, 64)
  /\ call.result[20] = Q(45, 16777216)

(***************************************************************************)
(* Properties of the registry and of the catalogue.                        *)
(***************************************************************************)
\* What the registry answers for a code is what the definition says.
HoldsCatalogueValue(code, projection) ==
  /\ code \in DOMAIN proj4defs /\ code \in DOMAIN projCache
  /\ proj4defs[code] = projection.def
  /\ projCache[code].extent = projection.extent
  /\ projCache[code].units = projection.units
  /\ projCache[code].metersPerUnit = projection.metersPerUnit

\* C27: once the module is loaded, after any operation every code of every
\* catalogue definition is registered with that definition's string,
\* validity extent, unit and meters-per-unit.
RegistryHoldsCatalogue ==
  (loaded /\ call # NoCall) =>
    \A i \in DOMAIN projections :
      \A code \in Range(projections[i].codes) :
        HoldsCatalogueValue(code, projections[i])

\* The part of the statement that is about writes: no step taken after the
\* load changes either table.
RegistryReadOnlyAfterLoad ==
  [][loaded => (proj4defs' = proj4defs /\ projCache' = projCache)]_vars

\* C29: no code belongs to two definitions of the catalogue, so at every
\* point of the registration each definition registered so far still holds
\* all its codes: none of them was overwritten by a later definition.
NoCodeOverwritten ==
  /\ \A i, j \in DOMAIN projections :
       (i < j /\ j <= regIdx) =>
         Range(projections[i].codes) \cap Range(projections[j].codes) = {}
  /\ \A i \in 1..regIdx :
       \A code \in Range(projections[i].codes) :
         HoldsCatalogueValue(code, projections[i])

(***************************************************************************)
(* The two centroid entry points, side by side.                            *)
(***************************************************************************)
OtherEntryPoint(op) ==
  IF op = "getCentroid" THEN "getCentroidCoordinate" ELSE "getCentroid"

SimpleTypes ==
  {"Point", "LineString", "LinearRing", "Polygon", "MultiPoint", "MultiLineString",
   "MultiPolygon", "Circle"}

\* C30: for a geometry of type Point, LineString, LinearRing, Polygon,
\* MultiPoint, MultiLineString, MultiPolygon or Circle, what one centroid
\* entry point answers is what the other answers for the same geometry.
EntryPointsAgree ==
  (/\ IsCentroidCall
   /\ call.source # Absent
   /\ call.source[1].type \in SimpleTypes)
  => call.result = CentroidOf(OtherEntryPoint(call.op), GeometryOf(call.source))

\* The same statement for the geometries for which an entry point answers a
\* coordinate.
EntryPointsAgreeOnCoordinates ==
  (/\ IsCentroidCall
   /\ call.source # Absent
   /\ call.source[1].type \in SimpleTypes
   /\ call.result.kind = "coordinate")
  => call.result = CentroidOf(OtherEntryPoint(call.op), GeometryOf(call.source))

Next ==
  \/ AddProjection
  \/ Register
  \/ GenerateResolutions
  \/ GeojsonTo4326
  \/ OlRenderFeature2olFeature
  \/ CloneOLRenderFeature
  \/ GetFeaturesExtent
  \/ TransformExtent
  \/ GetWMTSScale
  \/ GetCentroid
  \/ GetCentroidCoordinate
  \/ Return

Spec == Init /\ [][Next]_vars
====
